---- MODULE Spec2Model ----
(***************************************************************************)
(* Model of the ingestion and cleaning core of the traffic-analysis        *)
(* toolkit: DataCleaner (src/src/traffic_analysis/data_cleaner.py) and     *)
(* DataLoader (src/src/traffic_analysis/data_loader.py).                   *)
(*                                                                         *)
(* Representation.                                                         *)
(*   - A text is a sequence of one-character strings, so that strip,       *)
(*     lower, replace and the parsers work on characters as the code does. *)
(*   - A number is an integer count of thousandths (-22.9 is -22900).      *)
(*   - A timestamp is a count of minutes since EpochYear-01-01 00:00.      *)
(*   - A cell is a record [k, n, s]: k is "na" (NaN/NaT/None), "num",      *)
(*     "str" or "dt".                                                      *)
(*   - A table is [n |-> row count, cols |-> sequence of columns], a       *)
(*     column being [nome, dtype, vals]; dtype is the pandas dtype family  *)
(*     "int", "float", "object" or "datetime".                             *)
(***************************************************************************)
EXTENDS Integers, Sequences, FiniteSets, TLC

VARIABLES
    tabela,     \* cleaner: the table the last operation returned
    anterior,   \* cleaner: the table the last operation was given
    op,         \* cleaner: the last operation applied
    nops,       \* cleaner: number of operations applied so far
    limpador,   \* cleaner: the DataCleaner instance (its configured columns)
    rotina,         \* loader: which CSV routine runs ("idle" when none)
    arquivo,        \* loader: how the file on disk answers each read
    args,           \* loader: the caller's separator and encoding
    codificacoes,   \* loader: the ordered encoding candidates
    separadores,    \* loader: the ordered delimiter candidates
    ic,             \* loader: index of the outer loop (encoding)
    isep,           \* loader: index of the inner loop (delimiter)
    pc,             \* loader: "idle", "loop", "lenient", "returned", "raised"
    ultima_excecao, \* loader: the exception the loop keeps
    tentativas,     \* loader: every read attempted so far, in order
    retorno,        \* loader: the table returned or the exception raised
    anos,            \* multi-year: the list of years requested
    diretorio,       \* multi-year: year -> the file datatran<year>.csv, or none
    iano,            \* multi-year: position of the loop over anos
    dataframes_anos, \* multi-year: the tables loaded so far
    leituras,        \* multi-year: the read that produced each loaded table
    pc_anos,         \* multi-year: "idle", "loop", "loading", "returned", "raised"
    retorno_anos,    \* multi-year: the combined table or the exception raised
    clf,        \* classifier: the instances (original and fresh)
    clf_antes,  \* classifier: the instances as the last call found them
    disco,      \* classifier: the bundle directory, file name -> content
    disco_antes,\* classifier: the bundle directory as the last call found it
    chamada,    \* classifier: the last call, its arguments and its outcome
    historico,  \* classifier: the calls that completed without error, oldest first
    nclf        \* classifier: number of calls made so far

cleanerVars == <<tabela, anterior, op, nops, limpador>>

loaderVars == <<rotina, arquivo, args, codificacoes, separadores, ic, isep, pc,
                ultima_excecao, tentativas, retorno>>

anosVars == <<anos, diretorio, iano, dataframes_anos, leituras, pc_anos, retorno_anos>>

clfVars == <<clf, clf_antes, disco, disco_antes, chamada, historico, nclf>>

vars == <<tabela, anterior, op, nops, limpador,
          rotina, arquivo, args, codificacoes, separadores, ic, isep, pc,
          ultima_excecao, tentativas, retorno,
          anos, diretorio, iano, dataframes_anos, leituras, pc_anos, retorno_anos,
          clf, clf_antes, disco, disco_antes, chamada, historico, nclf>>

(***************************************************************************)
(* Bounds of the model.                                                    *)
(***************************************************************************)
MaxLinhas == 2          \* rows of the enumerated raw tables
MaxLinhasEsparsa == 20  \* rows of the sparse raw tables
MaxOps == 2             \* operations applied to one raw table
MaxAnos == 3            \* years in one carregar_multiplos_anos request

(***************************************************************************)
(* Sequences and characters.                                               *)
(***************************************************************************)
RECURSIVE SeqConcat(_)
SeqConcat(ss) == IF ss = <<>> THEN <<>> ELSE Head(ss) \o SeqConcat(Tail(ss))

SeqMap(f(_), s) == [i \in 1..Len(s) |-> f(s[i])]

Range(s) == {s[i] : i \in 1..Len(s)}

Abs(x) == IF x < 0 THEN -x ELSE x

DigitChars == <<"0", "1", "2", "3", "4", "5", "6", "7", "8", "9">>

IsDigit(c) == c \in Range(DigitChars)

DigitVal(c) == CHOOSE d \in 0..9 : DigitChars[d + 1] = c

AllDigits(s) == \A i \in 1..Len(s) : IsDigit(s[i])

RECURSIVE NatVal(_)
NatVal(s) == IF s = <<>> THEN 0
             ELSE NatVal(SubSeq(s, 1, Len(s) - 1)) * 10 + DigitVal(s[Len(s)])

RECURSIVE FormatNat(_)
FormatNat(x) == IF x < 10 THEN <<DigitChars[x + 1]>>
                ELSE FormatNat(x \div 10) \o <<DigitChars[(x % 10) + 1]>>

Pad2(x) == IF x < 10 THEN <<"0">> \o FormatNat(x) ELSE FormatNat(x)

(***************************************************************************)
(* Cells.                                                                  *)
(***************************************************************************)
NA == [k |-> "na", n |-> 0, s |-> <<>>]
Num(v) == [k |-> "num", n |-> v, s |-> <<>>]
Txt(t) == [k |-> "str", n |-> 0, s |-> t]
Dt(m) == [k |-> "dt", n |-> m, s |-> <<>>]

IsNA(c) == c.k = "na"

\* Thousandths per unit.
Milli == 10 * 10 * 10

(***************************************************************************)
(* Numbers as text: str() of a number (Series.astype(str)) and             *)
(* pd.to_numeric(errors="coerce") of a text.  Inputs carry at most three   *)
(* fractional digits.                                                      *)
(***************************************************************************)
RECURSIVE StripTrailingZeros(_)
StripTrailingZeros(s) ==
    IF Len(s) > 1 /\ s[Len(s)] = "0"
    THEN StripTrailingZeros(SubSeq(s, 1, Len(s) - 1))
    ELSE s

Pad3(x) == IF x < 10 THEN <<"0", "0">> \o FormatNat(x)
           ELSE IF x < 100 THEN <<"0">> \o FormatNat(x)
           ELSE FormatNat(x)

\* str(x) of an int64 ("5") or float64 ("5.0", "-22.9") value.
FormatNum(v, dtype) ==
    LET sinal == IF v < 0 THEN <<"-">> ELSE <<>>
        a == Abs(v)
    IN  IF dtype = "int"
        THEN sinal \o FormatNat(a \div Milli)
        ELSE sinal \o FormatNat(a \div Milli) \o <<".">>
                   \o StripTrailingZeros(Pad3(a % Milli))

\* Position of the first "." of s, 0 when there is none.
DotPos(s) == IF \E i \in 1..Len(s) : s[i] = "."
             THEN CHOOSE i \in 1..Len(s) : s[i] = "." /\ \A j \in 1..(i - 1) : s[j] # "."
             ELSE 0

FracMilli(f) ==
    LET g == IF Len(f) > 3 THEN SubSeq(f, 1, 3) ELSE f
    IN  IF Len(g) = 0 THEN 0
        ELSE IF Len(g) = 1 THEN NatVal(g) * 100
        ELSE IF Len(g) = 2 THEN NatVal(g) * 10
        ELSE NatVal(g)

\* pd.to_numeric(text, errors="coerce"): [sign] digits ["." digits]; anything
\* else ("nan", "None", "nao_informado", "1.2.3", "") is NaN.
ToNumeric(s) ==
    IF s = <<>> THEN NA
    ELSE
    LET neg == s[1] = "-"
        corpo == IF s[1] \in {"-", "+"} THEN Tail(s) ELSE s
        p == DotPos(corpo)
        int == IF p = 0 THEN corpo ELSE SubSeq(corpo, 1, p - 1)
        frac == IF p = 0 THEN <<>> ELSE SubSeq(corpo, p + 1, Len(corpo))
    IN  IF /\ AllDigits(int) /\ AllDigits(frac)
           /\ Len(int) + Len(frac) > 0
        THEN LET a == NatVal(int) * Milli + FracMilli(frac)
             IN  Num(IF neg THEN -a ELSE a)
        ELSE NA

\* Series.str.replace(',', '.', regex=False) on one text.
ReplaceComma(s) == [i \in 1..Len(s) |-> IF s[i] = "," THEN "." ELSE s[i]]

\* Series.astype(str) on one cell of a column of the given dtype.
AsStr(c, dtype) ==
    IF c.k = "str" THEN c.s
    ELSE IF c.k = "num" THEN FormatNum(c.n, dtype)
    ELSE IF c.k = "na" THEN <<"n", "a", "n">>
    ELSE <<"d", "t">>

(***************************************************************************)
(* Calendar: timestamps are minutes since EpochYear-01-01 00:00, as pandas *)
(* keeps them as a count since its epoch; the .dt accessors decompose the  *)
(* count.                                                                  *)
(***************************************************************************)
\* The epoch of the model's timestamps: 2020-01-01, a Wednesday (Monday = 0).
Epoch == [year |-> 2020, weekday |-> 2]
EpochYear == Epoch.year
LastYear == EpochYear + 4
EpochWeekday == Epoch.weekday

IsLeap(y) == (y % 4 = 0 /\ y % 100 # 0) \/ y % 400 = 0

DaysInMonth(y, m) ==
    IF m = 2 THEN (IF IsLeap(y) THEN 29 ELSE 28)
    ELSE IF m \in {4, 6, 9, 11} THEN 30 ELSE 31

DaysInYear(y) == IF IsLeap(y) THEN 366 ELSE 365

RECURSIVE DaysBeforeYear(_)
DaysBeforeYear(y) ==
    IF y <= EpochYear THEN 0 ELSE DaysBeforeYear(y - 1) + DaysInYear(y - 1)

RECURSIVE DaysBeforeMonth(_, _)
DaysBeforeMonth(y, m) ==
    IF m <= 1 THEN 0 ELSE DaysBeforeMonth(y, m - 1) + DaysInMonth(y, m - 1)

MinutesPerDay == 24 * 60

ValidDate(y, m, d) ==
    /\ y \in EpochYear..LastYear
    /\ m \in 1..12
    /\ d \in 1..DaysInMonth(y, m)

MakeTimestamp(y, m, d, h, mi) ==
    (DaysBeforeYear(y) + DaysBeforeMonth(y, m) + (d - 1)) * MinutesPerDay
        + h * 60 + mi

DayCount(ts) == ts \div MinutesPerDay

DtYear(ts) ==
    CHOOSE y \in EpochYear..LastYear :
        DaysBeforeYear(y) <= DayCount(ts) /\ DayCount(ts) < DaysBeforeYear(y + 1)

DayOfYear(ts) == DayCount(ts) - DaysBeforeYear(DtYear(ts))

DtMonth(ts) ==
    CHOOSE m \in 1..12 :
        /\ DaysBeforeMonth(DtYear(ts), m) <= DayOfYear(ts)
        /\ DayOfYear(ts) < DaysBeforeMonth(DtYear(ts), m + 1)

DtDay(ts) == DayOfYear(ts) - DaysBeforeMonth(DtYear(ts), DtMonth(ts)) + 1

DtHour(ts) == (ts % MinutesPerDay) \div 60

DtMinute(ts) == ts % 60

DtWeekday(ts) == (DayCount(ts) + EpochWeekday) % 7

\* str(datetime.date): "YYYY-MM-DD"
FormatDate(ts) ==
    FormatNat(DtYear(ts)) \o <<"-">> \o Pad2(DtMonth(ts)) \o <<"-">> \o Pad2(DtDay(ts))

\* pd.to_datetime(text, errors="coerce", dayfirst=True) on a "DD/MM/YYYY"
\* text; a text of another shape, or an impossible date, is NaT.
ParseDateDayFirst(s) ==
    IF /\ Len(s) = 10
       /\ s[3] = "/" /\ s[6] = "/"
       /\ AllDigits(SubSeq(s, 1, 2)) /\ AllDigits(SubSeq(s, 4, 5))
       /\ AllDigits(SubSeq(s, 7, 10))
    THEN LET d == NatVal(SubSeq(s, 1, 2))
             m == NatVal(SubSeq(s, 4, 5))
             y == NatVal(SubSeq(s, 7, 10))
         IN  IF ValidDate(y, m, d) THEN Dt(MakeTimestamp(y, m, d, 0, 0)) ELSE NA
    ELSE NA

\* The time-of-day part of a combined text: "HH:MM:SS", "HH:MM" or "HH".
\* Returns minutes since midnight, or -1 when the text is no time of day.
ParseTimeOfDay(s) ==
    LET hh == IF Len(s) >= 2 THEN SubSeq(s, 1, 2) ELSE <<>>
        mm == IF Len(s) >= 5 THEN SubSeq(s, 4, 5) ELSE <<>>
        ss == IF Len(s) >= 8 THEN SubSeq(s, 7, 8) ELSE <<>>
        shape == \/ Len(s) = 2
                 \/ Len(s) = 5 /\ s[3] = ":"
                 \/ Len(s) = 8 /\ s[3] = ":" /\ s[6] = ":"
    IN  IF /\ shape
           /\ AllDigits(hh) /\ AllDigits(mm) /\ AllDigits(ss)
           /\ NatVal(hh) < 24 /\ NatVal(mm) < 60 /\ NatVal(ss) < 60
        THEN NatVal(hh) * 60 + NatVal(mm)
        ELSE -1

\* pd.to_datetime(text, errors="coerce") on "YYYY-MM-DD <time of day>".
ParseDateTimeIso(s) ==
    IF /\ Len(s) >= 12
       /\ s[5] = "-" /\ s[8] = "-" /\ s[11] = " "
       /\ AllDigits(SubSeq(s, 1, 4)) /\ AllDigits(SubSeq(s, 6, 7))
       /\ AllDigits(SubSeq(s, 9, 10))
    THEN LET y == NatVal(SubSeq(s, 1, 4))
             m == NatVal(SubSeq(s, 6, 7))
             d == NatVal(SubSeq(s, 9, 10))
             tod == ParseTimeOfDay(SubSeq(s, 12, Len(s)))
         IN  IF ValidDate(y, m, d) /\ tod >= 0
             THEN Dt(MakeTimestamp(y, m, d, 0, 0) + tod)
             ELSE NA
    ELSE NA

(***************************************************************************)
(* Texts the code names: column names and the imputation sentinel.         *)
(***************************************************************************)
S_data_inversa == <<"d", "a", "t", "a", "_", "i", "n", "v", "e", "r", "s", "a">>
S_date == <<"d", "a", "t", "e">>
S_data_ocorrencia == <<"d", "a", "t", "a", "_", "o", "c", "o", "r", "r", "e", "n", "c", "i", "a">>
S_data == <<"d", "a", "t", "a">>
S_hora == <<"h", "o", "r", "a">>
S_horario == <<"h", "o", "r", "a", "r", "i", "o">>
S_hora_ocorrencia == <<"h", "o", "r", "a", "_", "o", "c", "o", "r", "r", "e", "n", "c", "i", "a">>
S_time == <<"t", "i", "m", "e">>
S_latitude == <<"l", "a", "t", "i", "t", "u", "d", "e">>
S_longitude == <<"l", "o", "n", "g", "i", "t", "u", "d", "e">>
S_data_hora_completa == <<"d", "a", "t", "a", "_", "h", "o", "r", "a", "_", "c", "o", "m", "p", "l", "e", "t", "a">>
S_ano == <<"a", "n", "o">>
S_mes == <<"m", "e", "s">>
S_dia == <<"d", "i", "a">>
S_dia_semana == <<"d", "i", "a", "_", "s", "e", "m", "a", "n", "a">>
S_nao_informado == <<"n", "a", "o", "_", "i", "n", "f", "o", "r", "m", "a", "d", "o">>

(***************************************************************************)
(* DataCleaner: the instance's configuration.  An argument not given       *)
(* (None, or an empty text, which Python also takes as false) is <<>>.     *)
(***************************************************************************)
DefaultColunasData == <<S_data_inversa, S_date, S_data_ocorrencia, S_data>>
DefaultColunasHora == <<S_hora, S_horario, S_hora_ocorrencia, S_time>>

DataCleanerInit(coluna_data, coluna_hora, coluna_lat, coluna_lon) ==
    [colunas_data |-> IF coluna_data # <<>>
                      THEN <<coluna_data>> \o DefaultColunasData
                      ELSE DefaultColunasData,
     colunas_hora |-> IF coluna_hora # <<>>
                      THEN <<coluna_hora>> \o DefaultColunasHora
                      ELSE DefaultColunasHora,
     coluna_latitude |-> IF coluna_lat # <<>> THEN coluna_lat ELSE S_latitude,
     coluna_longitude |-> IF coluna_lon # <<>> THEN coluna_lon ELSE S_longitude]

(***************************************************************************)
(* Tables.                                                                 *)
(***************************************************************************)
Coluna(nome, dtype, vals) == [nome |-> nome, dtype |-> dtype, vals |-> vals]

ColNames(t) == [i \in 1..Len(t.cols) |-> t.cols[i].nome]

HasCol(t, nome) == \E i \in 1..Len(t.cols) : t.cols[i].nome = nome

ColIdx(t, nome) ==
    CHOOSE i \in 1..Len(t.cols) :
        t.cols[i].nome = nome /\ \A j \in 1..(i - 1) : t.cols[j].nome # nome

GetCol(t, nome) == t.cols[ColIdx(t, nome)]

\* dados[nome] = values: replaces the column in place, or appends it.
SetCol(t, nome, dtype, vals) ==
    IF HasCol(t, nome)
    THEN [t EXCEPT !.cols[ColIdx(t, nome)] = Coluna(nome, dtype, vals)]
    ELSE [t EXCEPT !.cols = Append(t.cols, Coluna(nome, dtype, vals))]

Row(t, i) == [j \in 1..Len(t.cols) |-> t.cols[j].vals[i]]

IsNumberDtype(d) == d \in {"int", "float"}

\* The dtype pandas gives a column of numbers: int64, or float64 with a NaN.
NumDtype(vals) == IF \E i \in 1..Len(vals) : IsNA(vals[i]) THEN "float" ELSE "int"

(***************************************************************************)
(* padronizar_colunas: strip, lower, NFKD, ascii (ignore), \s+ -> "_".     *)
(***************************************************************************)
UpperChars == <<"A", "B", "C", "D", "E", "F", "G", "H", "I", "J", "K", "L", "M",
                "N", "O", "P", "Q", "R", "S", "T", "U", "V", "W", "X", "Y", "Z",
                "Á", "É", "Í", "Ó", "Ú", "Ã", "Õ", "Ç">>
LowerChars == <<"a", "b", "c", "d", "e", "f", "g", "h", "i", "j", "k", "l", "m",
                "n", "o", "p", "q", "r", "s", "t", "u", "v", "w", "x", "y", "z",
                "á", "é", "í", "ó", "ú", "ã", "õ", "ç">>
AccentedChars == <<"á", "é", "í", "ó", "ú", "ã", "õ", "ç">>
BaseChars == <<"a", "e", "i", "o", "u", "a", "o", "c">>
Whitespace == {" ", "\t"}

IndexOf(seq, c) == CHOOSE i \in 1..Len(seq) : seq[i] = c

IsAscii(c) ==
    \/ IsDigit(c)
    \/ c \in Whitespace
    \/ c \in {"_", "-", ".", ",", "/", ":"}
    \/ \E i \in 1..26 : c = UpperChars[i] \/ c = LowerChars[i]

RECURSIVE LStrip(_)
LStrip(s) == IF s # <<>> /\ Head(s) \in Whitespace THEN LStrip(Tail(s)) ELSE s

RECURSIVE RStrip(_)
RStrip(s) == IF s # <<>> /\ s[Len(s)] \in Whitespace
             THEN RStrip(SubSeq(s, 1, Len(s) - 1)) ELSE s

StrStrip(s) == RStrip(LStrip(s))

LowerChar(c) == IF c \in Range(UpperChars) THEN LowerChars[IndexOf(UpperChars, c)] ELSE c

StrLower(s) == [i \in 1..Len(s) |-> LowerChar(s[i])]

\* NFKD splits an accented letter into its base letter and a combining mark;
\* encode("ascii", errors="ignore") then drops every non-ASCII character.
AsciiFold(c) ==
    IF c \in Range(AccentedChars) THEN <<BaseChars[IndexOf(AccentedChars, c)]>>
    ELSE IF IsAscii(c) THEN <<c>>
    ELSE <<>>

StrAsciiFold(s) == SeqConcat([i \in 1..Len(s) |-> AsciiFold(s[i])])

\* str.replace("\s+", "_", regex=True)
RECURSIVE CollapseWhitespace(_)
CollapseWhitespace(s) ==
    IF s = <<>> THEN <<>>
    ELSE IF Head(s) \in Whitespace
         THEN <<"_">> \o CollapseWhitespace(LStrip(s))
         ELSE <<Head(s)>> \o CollapseWhitespace(Tail(s))

NormalizarNome(s) == CollapseWhitespace(StrAsciiFold(StrLower(StrStrip(s))))

padronizar_colunas(self, dados) ==
    [dados EXCEPT !.cols =
        [i \in 1..Len(dados.cols) |->
            [dados.cols[i] EXCEPT !.nome = NormalizarNome(dados.cols[i].nome)]]]

(***************************************************************************)
(* processar_datas.                                                        *)
(***************************************************************************)
\* pd.to_datetime(column, errors="coerce", dayfirst=True), cell by cell.  A
\* column that is already datetime64 is returned as it is.  Number cells of a
\* date column are outside the modelled inputs.
ToDatetimeCell(c) ==
    CASE c.k = "dt" -> c
      [] c.k = "na" -> NA
      [] c.k = "str" -> ParseDateDayFirst(c.s)

ToDatetimeVals(col) == [i \in 1..Len(col.vals) |-> ToDatetimeCell(col.vals[i])]

\* lines 52-54: one pass of the loop over self.colunas_data
RECURSIVE ConverterDatas(_, _)
ConverterDatas(colunas, dados) ==
    IF colunas = <<>> THEN dados
    ELSE LET coluna == Head(colunas)
             d1 == IF HasCol(dados, coluna)
                   THEN SetCol(dados, coluna, "datetime",
                               ToDatetimeVals(GetCol(dados, coluna)))
                   ELSE dados
         IN  ConverterDatas(Tail(colunas), d1)

\* dados["data_inversa"].dt.date.astype(str), one cell
DateAsStr(c) == IF c.k = "dt" THEN FormatDate(c.n) ELSE <<"N", "a", "T">>

\* lines 61-64: the combined column's values
CombinarVals(colData, colHora) ==
    [i \in 1..Len(colData.vals) |->
        ParseDateTimeIso(DateAsStr(colData.vals[i]) \o <<" ">>
                         \o AsStr(colHora.vals[i], colHora.dtype))]

\* lines 57-66: one pass of the loop over self.colunas_hora; the .dt accessor
\* raises on a column that is not datetime64 and the except clause passes.
RECURSIVE CombinarDataHora(_, _)
CombinarDataHora(colunas, dados) ==
    IF colunas = <<>> THEN dados
    ELSE LET coluna_hora == Head(colunas)
             d1 == IF HasCol(dados, coluna_hora) /\ HasCol(dados, S_data_inversa)
                   THEN IF GetCol(dados, S_data_inversa).dtype = "datetime"
                        THEN SetCol(dados, S_data_hora_completa, "datetime",
                                    CombinarVals(GetCol(dados, S_data_inversa),
                                                 GetCol(dados, coluna_hora)))
                        ELSE dados
                   ELSE dados
         IN  CombinarDataHora(Tail(colunas), d1)

ColunasTemporais == <<S_data_hora_completa, S_data, S_date, S_data_inversa>>

\* One .dt accessor over a datetime64 column: NaT gives NaN.
DtPart(col, F(_)) ==
    [i \in 1..Len(col.vals) |->
        IF col.vals[i].k = "dt" THEN Num(F(col.vals[i].n) * Milli) ELSE NA]

\* lines 71-76
DerivarDe(dados, base) ==
    LET b == GetCol(dados, base)
        ano == DtPart(b, DtYear)
        mes == DtPart(b, DtMonth)
        dia == DtPart(b, DtDay)
        hora == DtPart(b, DtHour)
        sem == DtPart(b, DtWeekday)
        d1 == SetCol(dados, S_ano, NumDtype(ano), ano)
        d2 == SetCol(d1, S_mes, NumDtype(mes), mes)
        d3 == SetCol(d2, S_dia, NumDtype(dia), dia)
        d4 == SetCol(d3, S_hora, NumDtype(hora), hora)
    IN  SetCol(d4, S_dia_semana, NumDtype(sem), sem)

\* Variant: the loop without its break, so the last such candidate decides.
DerivarTemporais_SemBreak(candidatas, dados) ==
    LET ks == {k \in 1..Len(candidatas) :
                 /\ HasCol(dados, candidatas[k])
                 /\ GetCol(dados, candidatas[k]).dtype = "datetime"}
    IN  IF ks = {} THEN dados
        ELSE DerivarDe(dados, candidatas[CHOOSE k \in ks : \A j \in ks : j <= k])

\* lines 69-77: the first candidate present with a datetime64 dtype, then break
RECURSIVE DerivarTemporais(_, _)
DerivarTemporais(candidatas, dados) ==
    IF candidatas = <<>> THEN dados
    ELSE IF /\ HasCol(dados, Head(candidatas))
            /\ GetCol(dados, Head(candidatas)).dtype = "datetime"
         THEN DerivarDe(dados, Head(candidatas))
         ELSE DerivarTemporais(Tail(candidatas), dados)

processar_datas(self, dados) ==
    DerivarTemporais(ColunasTemporais,
        CombinarDataHora(self.colunas_hora,
            ConverterDatas(self.colunas_data, dados)))

(***************************************************************************)
(* tratar_valores_ausentes.                                                *)
(***************************************************************************)
NumNA(col) == Cardinality({i \in 1..Len(col.vals) : IsNA(col.vals[i])})

\* The threshold of line 86, 0.95, as a fraction of 100.
LimiteNulosPct == 95

\* Variant: the threshold taken as "at least 95%".
QuaseVazia_MaiorOuIgual(col) ==
    Len(col.vals) > 0 /\ NumNA(col) * 100 >= LimiteNulosPct * Len(col.vals)

\* line 85-86: isna().mean() > 0.95; the mean of an empty column is NaN and
\* NaN > 0.95 is false.
QuaseVazia(col) ==
    Len(col.vals) > 0 /\ NumNA(col) * 100 > LimiteNulosPct * Len(col.vals)

Presentes(col) == SelectSeq(col.vals, LAMBDA c : ~IsNA(c))

\* Variant: the lower middle value, without the mean of the two middle ones.
Mediana_SemMedia(col) ==
    LET s == SortSeq(SeqMap(LAMBDA c : c.n, Presentes(col)), LAMBDA a, b : a < b)
    IN  s[(Len(s) + 1) \div 2]

\* Series.median(): NaN skipped; the middle value, or the mean of the two
\* middle values.
Mediana(col) ==
    LET s == SortSeq(SeqMap(LAMBDA c : c.n, Presentes(col)), LAMBDA a, b : a < b)
        m == Len(s)
    IN  IF m % 2 = 1 THEN s[(m + 1) \div 2]
        ELSE (s[m \div 2] + s[(m \div 2) + 1]) \div 2

FillNA(col, v) ==
    [col EXCEPT !.vals = [i \in 1..Len(col.vals) |->
                            IF IsNA(col.vals[i]) THEN v ELSE col.vals[i]]]

\* lines 92-102, one column: number columns get the median, object columns
\* the sentinel, any other dtype (datetime64) is left alone.
ImputarColuna(col) ==
    IF NumNA(col) = 0 THEN col
    ELSE IF IsNumberDtype(col.dtype)
         THEN [FillNA(col, Num(Mediana(col))) EXCEPT !.dtype = "float"]
    ELSE IF col.dtype = "object" THEN FillNA(col, Txt(S_nao_informado))
    ELSE col

tratar_valores_ausentes(self, dados) ==
    LET mantidas == SelectSeq(dados.cols, LAMBDA c : ~QuaseVazia(c))
    IN  [dados EXCEPT !.cols = [i \in 1..Len(mantidas) |-> ImputarColuna(mantidas[i])]]

(***************************************************************************)
(* remover_duplicatas: DataFrame.drop_duplicates(), the first of equal     *)
(* rows is kept; missing cells compare equal.                              *)
(***************************************************************************)
Indices(n) == [i \in 1..n |-> i]

PrimeiraOcorrencia(dados, i) == \A j \in 1..(i - 1) : Row(dados, j) # Row(dados, i)

remover_duplicatas(self, dados) ==
    LET keep == SelectSeq(Indices(dados.n), LAMBDA i : PrimeiraOcorrencia(dados, i))
    IN  [n |-> Len(keep),
         cols |-> [j \in 1..Len(dados.cols) |->
                    [dados.cols[j] EXCEPT !.vals =
                        [r \in 1..Len(keep) |-> dados.cols[j].vals[keep[r]]]]]]

(***************************************************************************)
(* corrigir_coordenadas_geograficas.                                       *)
(***************************************************************************)
LatMin == -35
LatMax == 5
LonMin == -75
LonMax == -30

\* Variant: the bounds excluded.
InRange_Exclusivo(c, lo, hi) == c.k = "num" /\ c.n > lo * Milli /\ c.n < hi * Milli

\* lines 127 and 131: (dados[coluna] >= lo) & (dados[coluna] <= hi)
InRange(c, lo, hi) == c.k = "num" /\ c.n >= lo * Milli /\ c.n <= hi * Milli

\* dtype of a column of numbers as the parser infers it from a file: int64
\* when every value is whole and none is missing, float64 otherwise.
DtypeInferido(vals) ==
    IF \A i \in 1..Len(vals) : vals[i].k = "num" /\ vals[i].n % Milli = 0
    THEN "int" ELSE "float"

\* lines 121-132 for one column.  pd.to_numeric gives int64 when every text
\* is an integer literal; a text with a decimal point, or a NaN (from the
\* coercion or from line 128/132), makes the column float64.
CorrigirColuna(self, col) ==
    LET textos == [i \in 1..Len(col.vals) |->
                      ReplaceComma(AsStr(col.vals[i], col.dtype))]
        nums == [i \in 1..Len(textos) |-> ToNumeric(textos[i])]
        ok(c) == IF col.nome = self.coluna_latitude THEN InRange(c, LatMin, LatMax)
                 ELSE IF col.nome = self.coluna_longitude THEN InRange(c, LonMin, LonMax)
                 ELSE TRUE
        vals == [i \in 1..Len(nums) |-> IF ok(nums[i]) THEN nums[i] ELSE NA]
        dtype == IF \A i \in 1..Len(vals) : vals[i].k = "num" /\ DotPos(textos[i]) = 0
                 THEN "int" ELSE "float"
    IN  Coluna(col.nome, dtype, vals)

RECURSIVE CorrigirColunas(_, _, _)
CorrigirColunas(self, colunas, dados) ==
    IF colunas = <<>> THEN dados
    ELSE LET coluna == Head(colunas)
             d1 == IF HasCol(dados, coluna)
                   THEN [dados EXCEPT !.cols[ColIdx(dados, coluna)] =
                            CorrigirColuna(self, GetCol(dados, coluna))]
                   ELSE dados
         IN  CorrigirColunas(self, Tail(colunas), d1)

corrigir_coordenadas_geograficas(self, dados) ==
    CorrigirColunas(self, <<self.coluna_latitude, self.coluna_longitude>>, dados)

(***************************************************************************)
(* executar: the five stages in their fixed order.                         *)
(***************************************************************************)
executar(self, dados) ==
    corrigir_coordenadas_geograficas(self,
        remover_duplicatas(self,
            tratar_valores_ausentes(self,
                processar_datas(self,
                    padronizar_colunas(self, dados)))))

(***************************************************************************)
(* Raw tables the cleaner is run on.                                       *)
(***************************************************************************)
S_km == <<"k", "m">>
S_uf == <<"u", "f">>
S_dt_acidente == <<"d", "t", "_", "a", "c", "i", "d", "e", "n", "t", "e">>
\* " Data Inversa " and "Horário", as a source file may spell them
S_DataInversaBruta == <<" ", "D", "a", "t", "a", " ", "I", "n", "v", "e", "r", "s", "a", " ">>
S_HorarioBruto == <<"H", "o", "r", "á", "r", "i", "o">>

DomLatTexto == {Txt(<<"-", "2", "2", ",", "9">>), Txt(<<"-", "2", "2", ".", "9">>), Txt(<<"5">>),
                Txt(<<"1", "0", ".", "5">>), Txt(<<"a", "b", "c">>)}
DomLonTexto == {Txt(<<"-", "4", "3", ",", "2">>), NA}
DomLatNumero == {Num(-22900), Num(-35000), Num(10500), NA}
DomLonNumero == {Num(-30000), Num(-29900)}
DomLatCurto == {Num(-22900), Num(5100)}
DomKm == {Num(1000), Num(4000), NA}
DomKmCurto == {Num(1000), NA}
DomData == {Txt(<<"1", "3", "/", "0", "2", "/", "2", "0", "2", "1">>), Txt(<<"0", "1", "/", "0", "3", "/", "2", "0", "2", "2">>), Txt(<<"3", "1", "/", "0", "2", "/", "2", "0", "2", "1">>)}
DomDataCurto == {Txt(<<"1", "3", "/", "0", "2", "/", "2", "0", "2", "1">>), NA}
DomHora == {Txt(<<"1", "4", ":", "3", "0", ":", "0", "0">>), NA}
DomUf == {Txt(<<"S", "P">>), NA}

Campo(nome, tipo, dom) == [nome |-> nome, tipo |-> tipo, dom |-> dom]

SemArgs == <<<<>>, <<>>, <<>>, <<>>>>

\* Each scenario: the constructor's arguments and the raw table's columns.
Cenarios ==
    { [args |-> SemArgs,
       campos |-> <<Campo(S_latitude, "object", DomLatTexto),
                    Campo(S_longitude, "object", DomLonTexto)>>],
      [args |-> SemArgs,
       campos |-> <<Campo(S_latitude, "number", DomLatNumero),
                    Campo(S_longitude, "number", DomLonNumero)>>],
      [args |-> SemArgs,
       campos |-> <<Campo(S_km, "number", DomKm),
                    Campo(S_uf, "object", DomUf)>>],
      [args |-> <<S_data_inversa, S_horario, S_latitude, S_longitude>>,
       campos |-> <<Campo(S_data_inversa, "object", DomData),
                    Campo(S_horario, "object", DomHora)>>],
      [args |-> SemArgs,
       campos |-> <<Campo(S_data_inversa, "object", DomData),
                    Campo(S_hora, "object", DomHora)>>],
      [args |-> SemArgs,
       campos |-> <<Campo(S_DataInversaBruta, "object", DomDataCurto),
                    Campo(S_HorarioBruto, "object", DomHora)>>],
      [args |-> SemArgs,
       campos |-> <<Campo(S_data_ocorrencia, "object", DomData),
                    Campo(S_uf, "object", DomUf)>>],
      [args |-> SemArgs,
       campos |-> <<Campo(S_data, "object", DomData),
                    Campo(S_latitude, "number", DomLatCurto)>>],
      [args |-> SemArgs,
       campos |-> <<Campo(S_data, "object", DomDataCurto),
                    Campo(S_hora, "object", DomHora)>>],
      [args |-> <<S_dt_acidente, <<>>, <<>>, <<>>>>,
       campos |-> <<Campo(S_dt_acidente, "object", DomData),
                    Campo(S_km, "number", DomKmCurto)>>] }

RawDtype(campo, vals) == IF campo.tipo = "number" THEN DtypeInferido(vals) ELSE "object"

RECURSIVE ColunasDe(_, _)
ColunasDe(campos, n) ==
    IF campos = <<>> THEN {<<>>}
    ELSE { <<Coluna(Head(campos).nome, RawDtype(Head(campos), v), v)>> \o resto :
             v \in [1..n -> Head(campos).dom], resto \in ColunasDe(Tail(campos), n) }

TabelasDe(campos) ==
    UNION { { [n |-> n, cols |-> cs] : cs \in ColunasDe(campos, n) } : n \in 0..MaxLinhas }

\* A table of n rows whose first k rows miss both the number and the text.
Esparsa(n, k) ==
    [n |-> n,
     cols |-> <<Coluna(S_km, "float",
                       [i \in 1..n |-> IF i <= k THEN NA ELSE Num(i * Milli)]),
                Coluna(S_uf, "object",
                       [i \in 1..n |-> IF i <= k THEN NA ELSE Txt(FormatNat(i))])>>]

TabelasEsparsas ==
    { Esparsa(n, k) : n \in 1..MaxLinhasEsparsa, k \in 0..MaxLinhasEsparsa }

(***************************************************************************)
(* The cleaner as a state machine: a raw table is handed to an instance,   *)
(* and the stages, or the whole pipeline, are applied to what the previous *)
(* call returned.                                                          *)
(***************************************************************************)
Aplicar(nome, resultado) ==
    /\ nops < MaxOps
    /\ tabela' = resultado
    /\ anterior' = tabela
    /\ op' = nome
    /\ nops' = nops + 1
    /\ UNCHANGED limpador
    /\ UNCHANGED <<loaderVars, anosVars, clfVars>>

PadronizarColunas == Aplicar("padronizar_colunas", padronizar_colunas(limpador, tabela))

ProcessarDatas == Aplicar("processar_datas", processar_datas(limpador, tabela))

TratarValoresAusentes ==
    Aplicar("tratar_valores_ausentes", tratar_valores_ausentes(limpador, tabela))

RemoverDuplicatas == Aplicar("remover_duplicatas", remover_duplicatas(limpador, tabela))

CorrigirCoordenadas ==
    Aplicar("corrigir_coordenadas_geograficas",
            corrigir_coordenadas_geograficas(limpador, tabela))

Executar == Aplicar("executar", executar(limpador, tabela))

(***************************************************************************)
(* CSV loading: DataLoader._carregar_csv_com_fallbacks (data_loader.py)    *)
(* and _carregar_entrada (data_cleaner.py).  "None" stands for Python's    *)
(* None: no delimiter (the parser infers it), no argument given.           *)
(*                                                                         *)
(* The file is what pd.read_csv makes of it: the encodings that decode     *)
(* it, the delimiters under which it parses, whether it is empty, whether  *)
(* it parses once malformed lines are skipped, and what the sniffer finds. *)
(***************************************************************************)
Nenhum == "None"

CodificacoesConhecidas == {"utf-8", "latin-1", "cp1252"}

Arquivos ==
    [decodifica : {d \in SUBSET CodificacoesConhecidas : "latin-1" \in d},
     delimita : SUBSET {",", ";", Nenhum},
     vazio : BOOLEAN,
     leniente : BOOLEAN,
     detectado : {Nenhum, ";", ","}]

\* What one pd.read_csv call does: "ok" or the exception's type.
Leitura(arq, codif, sep, tolerante) ==
    IF codif \notin CodificacoesConhecidas THEN "LookupError"
    ELSE IF arq.vazio THEN "EmptyDataError"
    ELSE IF codif \notin arq.decodifica THEN "UnicodeDecodeError"
    ELSE IF tolerante THEN (IF arq.leniente THEN "ok" ELSE "ParserError")
    ELSE IF sep \in arq.delimita THEN "ok"
    ELSE "ParserError"

Tentativa(codif, sep, tolerante) == [codif |-> codif, sep |-> sep, tolerante |-> tolerante]

\* An exception object: its type and the attempt (by number) that raised it.
Excecao(tipo, n) == [tipo |-> tipo, n |-> n]

SemExcecao == Excecao("None", 0)

\* The table a successful read returns, named by the read that produced it.
TabelaLida(t) == [ok |-> TRUE, de |-> t, exc |-> SemExcecao]

Levantada(e) == [ok |-> FALSE, de |-> Tentativa(Nenhum, Nenhum, FALSE), exc |-> e]

SemRetorno == Levantada(SemExcecao)

\* data_loader.py lines 81-82
DL_codificacoes(codificacao) == <<codificacao, "utf-8", "latin-1">>

DL_separadores(separador) == <<separador, Nenhum, ";", ",", "\t", "|">>

\* data_cleaner.py line 216
CE_codificacoes(codificacao) ==
    IF codificacao # Nenhum THEN <<codificacao>> ELSE <<"utf-8", "latin-1">>

\* Variant: every delimiter appended, without the membership test.
AcrescentarTodos(candidatos, delimitadores) == candidatos \o delimitadores

\* data_cleaner.py lines 220-222
RECURSIVE AcrescentarNovos(_, _)
AcrescentarNovos(candidatos, delimitadores) ==
    IF delimitadores = <<>> THEN candidatos
    ELSE AcrescentarNovos(
            IF Head(delimitadores) \notin Range(candidatos)
            THEN Append(candidatos, Head(delimitadores))
            ELSE candidatos,
            Tail(delimitadores))

\* data_cleaner.py lines 217-222
CE_separadores(separador, separador_detectado) ==
    AcrescentarNovos(IF separador # Nenhum THEN <<separador>> ELSE <<>>,
                     <<separador_detectado, ";", ",", "\t", "|", Nenhum>>)

\* Variant: DataLoader's loop catches every exception, as _carregar_entrada's.
Capturadas_Todas(r) ==
    {"ParserError", "UnicodeDecodeError", "EmptyDataError", "LookupError"}

\* The exception types the loop's except clause catches.
Capturadas(r) ==
    IF r = "DataLoader" THEN {"ParserError", "UnicodeDecodeError"}
    ELSE {"ParserError", "UnicodeDecodeError", "EmptyDataError", "LookupError"}

\* Variant: the loops nested the other way round, encodings inside.
Avancar_CodificacaoPorDentro ==
    IF ic < Len(codificacoes)
    THEN /\ ic' = ic + 1 /\ isep' = isep /\ pc' = "loop"
    ELSE IF isep < Len(separadores)
         THEN /\ ic' = 1 /\ isep' = isep + 1 /\ pc' = "loop"
         ELSE /\ isep' = isep /\ ic' = ic /\ pc' = "lenient"

\* The nested for loops advance: next delimiter, else next encoding, else
\* the loops are over.
Avancar ==
    IF isep < Len(separadores)
    THEN /\ isep' = isep + 1 /\ ic' = ic /\ pc' = "loop"
    ELSE IF ic < Len(codificacoes)
         THEN /\ isep' = 1 /\ ic' = ic + 1 /\ pc' = "loop"
         ELSE /\ isep' = isep /\ ic' = ic /\ pc' = "lenient"

\* One pass of the inner loop's body: a read, then return, continue or raise.
TentarPar ==
    /\ pc = "loop"
    /\ LET t == Tentativa(codificacoes[ic], separadores[isep], FALSE)
           r == Leitura(arquivo, t.codif, t.sep, FALSE)
           n == Len(tentativas) + 1
       IN  /\ tentativas' = Append(tentativas, t)
           /\ IF r = "ok"
              THEN /\ pc' = "returned"
                   /\ retorno' = TabelaLida(t)
                   /\ UNCHANGED <<ic, isep, ultima_excecao>>
              ELSE IF r \in Capturadas(rotina)
              THEN /\ ultima_excecao' = Excecao(r, n)
                   /\ Avancar
                   /\ UNCHANGED retorno
              ELSE /\ pc' = "raised"
                   /\ retorno' = Levantada(Excecao(r, n))
                   /\ UNCHANGED <<ic, isep, ultima_excecao>>
    /\ UNCHANGED <<rotina, arquivo, args, codificacoes, separadores>>
    /\ UNCHANGED <<cleanerVars, anosVars, clfVars>>

\* Variant: the last resort's own exception is raised.
ExcecaoPropagada_DoUltimoRecurso(ultima, e) == e

\* data_loader.py line 108 and data_cleaner.py line 238: the exception the
\* loop kept is raised, the last resort's own only when the loop kept none.
ExcecaoPropagada(ultima, e) == IF ultima = SemExcecao THEN e ELSE ultima

\* The read of the last resort: data_loader.py lines 99-106 and
\* data_cleaner.py lines 234-236.
TentativaLeniente ==
    IF rotina = "DataLoader"
    THEN Tentativa(args.codificacao, args.separador, TRUE)
    ELSE Tentativa(codificacoes[Len(codificacoes)], separadores[1], TRUE)

UltimoRecurso ==
    /\ pc = "lenient"
    /\ LET t == TentativaLeniente
           r == Leitura(arquivo, t.codif, t.sep, TRUE)
           n == Len(tentativas) + 1
       IN  /\ tentativas' = Append(tentativas, t)
           /\ IF r = "ok"
              THEN /\ pc' = "returned"
                   /\ retorno' = TabelaLida(t)
              ELSE /\ pc' = "raised"
                   /\ retorno' = Levantada(ExcecaoPropagada(ultima_excecao,
                                                            Excecao(r, n)))
    /\ UNCHANGED <<rotina, arquivo, args, codificacoes, separadores, ic, isep,
                   ultima_excecao>>
    /\ UNCHANGED <<cleanerVars, anosVars, clfVars>>

LoaderIdle ==
    /\ rotina = "idle"
    /\ arquivo = [decodifica |-> {"latin-1"}, delimita |-> {}, vazio |-> FALSE,
                  leniente |-> FALSE, detectado |-> Nenhum]
    /\ args = [separador |-> Nenhum, codificacao |-> Nenhum]
    /\ codificacoes = <<>>
    /\ separadores = <<>>
    /\ ic = 1
    /\ isep = 1
    /\ pc = "idle"
    /\ ultima_excecao = SemExcecao
    /\ tentativas = <<>>
    /\ retorno = SemRetorno

\* No carregar_multiplos_anos call is under way.
AnosIdle ==
    /\ anos = <<>>
    /\ diretorio = <<>>
    /\ iano = 1
    /\ dataframes_anos = <<>>
    /\ leituras = <<>>
    /\ pc_anos = "idle"
    /\ retorno_anos = [ok |-> FALSE, linhas |-> <<>>, exc |-> SemExcecao]

\* No classifier has been constructed.
ClfIdle ==
    /\ clf = <<>>
    /\ clf_antes = <<>>
    /\ disco = <<>>
    /\ disco_antes = <<>>
    /\ chamada = [op |-> "idle"]
    /\ historico = <<>>
    /\ nclf = 0

CleanerIdle ==
    /\ limpador = DataCleanerInit(<<>>, <<>>, <<>>, <<>>)
    /\ tabela = [n |-> 0, cols |-> <<>>]
    /\ anterior = tabela
    /\ op = "init"
    /\ nops = 0

LoaderStart ==
    /\ ic = 1
    /\ isep = 1
    /\ pc = "loop"
    /\ ultima_excecao = SemExcecao
    /\ tentativas = <<>>
    /\ retorno = SemRetorno

\* DataLoader(caminho, separador, codificacao).carregar() on a CSV file.
InitDataLoader ==
    /\ rotina = "DataLoader"
    /\ arquivo \in Arquivos
    /\ args \in [separador : {",", ";", "|", Nenhum},
                 codificacao : {"utf-8", "latin-1", "cp1252", "utf-9"}]
    /\ codificacoes = DL_codificacoes(args.codificacao)
    /\ separadores = DL_separadores(args.separador)
    /\ LoaderStart

\* _carregar_entrada(caminho, separador, codificacao) on a CSV file.
InitCarregarEntrada ==
    /\ rotina = "_carregar_entrada"
    /\ arquivo \in Arquivos
    /\ args \in [separador : {";", "|", Nenhum},
                 codificacao : {"latin-1", "cp1252", Nenhum}]
    /\ codificacoes = CE_codificacoes(args.codificacao)
    /\ separadores = CE_separadores(args.separador, arquivo.detectado)
    /\ LoaderStart

InitLoader == CleanerIdle /\ AnosIdle /\ ClfIdle /\ (InitDataLoader \/ InitCarregarEntrada)

NextLoader == TentarPar \/ UltimoRecurso

SpecLoader == InitLoader /\ [][NextLoader]_vars

(***************************************************************************)
(* DataLoader.carregar_multiplos_anos (data_loader.py lines 30-70): the    *)
(* loop over the years, each found file loaded by a temporary DataLoader   *)
(* through the fallback loops above.                                       *)
(*                                                                         *)
(* A table is here the sequence of its rows.  A row records the line of    *)
(* the file it was read from (de), whether that line is well formed (boa)  *)
(* and the value of its column 'ano' (0 when the file has no such column). *)
(***************************************************************************)
AnosConhecidos == {2021, 2022, 2023}

AnoDoArquivo == [sem_coluna |-> 0, proprio |-> 1999]

Linha(ano, i, boa, ano_proprio) == [de |-> <<ano, i>>, boa |-> boa, ano |-> ano_proprio]

SemArquivo ==
    [existe |-> FALSE,
     arq |-> [decodifica |-> {"latin-1"}, delimita |-> {}, vazio |-> FALSE,
              leniente |-> FALSE, detectado |-> Nenhum],
     linhas |-> <<>>]

\* The files datatran<ano>.csv the directory may hold for one year: one that
\* parses with ';', one that parses only once its malformed line is skipped
\* (and has a column 'ano' of its own), an empty one, and one that never
\* parses.
ArquivosDoAno(ano) ==
    { SemArquivo,
      [existe |-> TRUE,
       arq |-> [decodifica |-> {"utf-8", "latin-1"}, delimita |-> {";"},
                vazio |-> FALSE, leniente |-> TRUE, detectado |-> ";"],
       linhas |-> <<Linha(ano, 1, TRUE, AnoDoArquivo.sem_coluna),
                    Linha(ano, 2, TRUE, AnoDoArquivo.sem_coluna)>>],
      [existe |-> TRUE,
       arq |-> [decodifica |-> {"utf-8", "latin-1"}, delimita |-> {},
                vazio |-> FALSE, leniente |-> TRUE, detectado |-> Nenhum],
       linhas |-> <<Linha(ano, 1, TRUE, AnoDoArquivo.proprio),
                    Linha(ano, 2, FALSE, AnoDoArquivo.proprio),
                    Linha(ano, 3, TRUE, AnoDoArquivo.proprio)>>],
      [existe |-> TRUE,
       arq |-> [decodifica |-> {"utf-8", "latin-1"}, delimita |-> {},
                vazio |-> TRUE, leniente |-> FALSE, detectado |-> Nenhum],
       linhas |-> <<>>],
      [existe |-> TRUE,
       arq |-> [decodifica |-> {"latin-1"}, delimita |-> {},
                vazio |-> FALSE, leniente |-> FALSE, detectado |-> Nenhum],
       linhas |-> <<Linha(ano, 1, FALSE, AnoDoArquivo.sem_coluna)>>] }

\* The table a read gives: on_bad_lines="skip" (line 105) drops the malformed
\* lines, any other successful read found none.
LinhasLidas(f, leitura) ==
    IF leitura.tolerante THEN SelectSeq(f.linhas, LAMBDA l : l.boa) ELSE f.linhas

\* Variant: the year is written only where the file has no column 'ano'.
MarcarAno_SeAusente(dados_ano, ano) ==
    [i \in 1..Len(dados_ano) |->
        IF dados_ano[i].ano = AnoDoArquivo.sem_coluna
        THEN [dados_ano[i] EXCEPT !.ano = ano] ELSE dados_ano[i]]

\* line 57: dados_ano['ano'] = ano
MarcarAno(dados_ano, ano) ==
    [i \in 1..Len(dados_ano) |-> [dados_ano[i] EXCEPT !.ano = ano]]

RetornoAnos(ok, linhas, exc) == [ok |-> ok, linhas |-> linhas, exc |-> exc]

\* Variant: the call fails as soon as one requested year has no file.
ResultadoAnos_ExigeTodos(dataframes, pedidos) ==
    IF Len(dataframes) < Len(pedidos)
    THEN RetornoAnos(FALSE, <<>>, Excecao("FileNotFoundError", 0))
    ELSE RetornoAnos(TRUE, SeqConcat(dataframes), SemExcecao)

\* lines 63-70: FileNotFoundError (its message names the years asked for)
\* when no table was loaded, else pd.concat(..., ignore_index=True).
ResultadoAnos(dataframes, pedidos) ==
    IF dataframes = <<>>
    THEN RetornoAnos(FALSE, <<>>, Excecao("FileNotFoundError", 0))
    ELSE RetornoAnos(TRUE, SeqConcat(dataframes), SemExcecao)

\* lines 46-55 and 60-61: the next year of the list; its file, when there is
\* one, is handed to a temporary DataLoader with this loader's settings
\* (carregar, lines 20-27, finds the file and takes the CSV branch).
ProximoAno ==
    /\ pc_anos = "loop"
    /\ iano <= Len(anos)
    /\ LET f == diretorio[anos[iano]]
       IN  IF f.existe
           THEN /\ pc_anos' = "loading"
                /\ rotina' = "DataLoader"
                /\ arquivo' = f.arq
                /\ codificacoes' = DL_codificacoes(args.codificacao)
                /\ separadores' = DL_separadores(args.separador)
                /\ ic' = 1
                /\ isep' = 1
                /\ pc' = "loop"
                /\ ultima_excecao' = SemExcecao
                /\ tentativas' = <<>>
                /\ retorno' = SemRetorno
                /\ UNCHANGED iano
           ELSE /\ iano' = iano + 1
                /\ UNCHANGED <<pc_anos, rotina, arquivo, codificacoes, separadores,
                               ic, isep, pc, ultima_excecao, tentativas, retorno>>
    /\ UNCHANGED <<anos, diretorio, dataframes_anos, leituras, retorno_anos, args>>
    /\ UNCHANGED <<cleanerVars, clfVars>>

\* lines 56-59: carregar returned; the table is tagged and kept.
AnoCarregado ==
    /\ pc_anos = "loading"
    /\ pc = "returned"
    /\ dataframes_anos' =
          Append(dataframes_anos,
                 MarcarAno(LinhasLidas(diretorio[anos[iano]], retorno.de), anos[iano]))
    /\ leituras' = Append(leituras, retorno.de)
    /\ iano' = iano + 1
    /\ pc_anos' = "loop"
    /\ pc' = "idle"
    /\ UNCHANGED <<anos, diretorio, retorno_anos>>
    /\ UNCHANGED <<rotina, arquivo, args, codificacoes, separadores, ic, isep,
                   ultima_excecao, tentativas, retorno>>
    /\ UNCHANGED <<cleanerVars, clfVars>>

\* line 56: carregar raised; nothing catches it.
AnoFalhou ==
    /\ pc_anos = "loading"
    /\ pc = "raised"
    /\ pc_anos' = "raised"
    /\ retorno_anos' = RetornoAnos(FALSE, <<>>, retorno.exc)
    /\ pc' = "idle"
    /\ UNCHANGED <<anos, diretorio, iano, dataframes_anos, leituras>>
    /\ UNCHANGED <<rotina, arquivo, args, codificacoes, separadores, ic, isep,
                   ultima_excecao, tentativas, retorno>>
    /\ UNCHANGED <<cleanerVars, clfVars>>

\* lines 63-70, once the list is exhausted.
FimDosAnos ==
    /\ pc_anos = "loop"
    /\ iano > Len(anos)
    /\ retorno_anos' = ResultadoAnos(dataframes_anos, anos)
    /\ pc_anos' = IF retorno_anos'.ok THEN "returned" ELSE "raised"
    /\ UNCHANGED <<anos, diretorio, iano, dataframes_anos, leituras>>
    /\ UNCHANGED <<loaderVars, cleanerVars, clfVars>>

ListasDeAnos == UNION { [1..n -> AnosConhecidos] : n \in 0..MaxAnos }

\* DataLoader(caminho, separador, codificacao).carregar_multiplos_anos(anos)
InitAnos ==
    /\ CleanerIdle
    /\ ClfIdle
    /\ anos \in ListasDeAnos
    /\ diretorio \in { d \in [AnosConhecidos -> UNION { ArquivosDoAno(a) : a \in AnosConhecidos }] :
                          \A a \in AnosConhecidos : d[a] \in ArquivosDoAno(a) }
    /\ iano = 1
    /\ dataframes_anos = <<>>
    /\ leituras = <<>>
    /\ pc_anos = "loop"
    /\ retorno_anos = RetornoAnos(FALSE, <<>>, SemExcecao)
    /\ rotina = "idle"
    /\ arquivo = SemArquivo.arq
    /\ args \in [separador : {",", ";"}, codificacao : {"utf-8"}]
    /\ codificacoes = <<>>
    /\ separadores = <<>>
    /\ ic = 1
    /\ isep = 1
    /\ pc = "idle"
    /\ ultima_excecao = SemExcecao
    /\ tentativas = <<>>
    /\ retorno = SemRetorno

NextAnos == ProximoAno \/ TentarPar \/ UltimoRecurso \/ AnoCarregado \/ AnoFalhou \/ FimDosAnos

SpecAnos == InitAnos /\ [][NextAnos]_vars

(***************************************************************************)
(* The cleaner's specification.                                            *)
(***************************************************************************)
Init ==
    /\ \E c \in Cenarios :
         /\ limpador = DataCleanerInit(c.args[1], c.args[2], c.args[3], c.args[4])
         /\ tabela \in TabelasDe(c.campos)
    /\ anterior = tabela
    /\ op = "init"
    /\ nops = 0
    /\ LoaderIdle
    /\ AnosIdle
    /\ ClfIdle

InitEsparsa ==
    /\ limpador = DataCleanerInit(<<>>, <<>>, <<>>, <<>>)
    /\ tabela \in { t \in TabelasEsparsas : NumNA(t.cols[1]) <= t.n }
    /\ anterior = tabela
    /\ op = "init"
    /\ nops = 0
    /\ LoaderIdle
    /\ AnosIdle
    /\ ClfIdle

Next ==
    \/ PadronizarColunas
    \/ ProcessarDatas
    \/ TratarValoresAusentes
    \/ RemoverDuplicatas
    \/ CorrigirCoordenadas
    \/ Executar

Spec == (Init \/ InitEsparsa) /\ [][Next]_vars

(***************************************************************************)
(* AccidentSeverityClassifier (src/src/traffic_analysis/ml_classifier.py). *)
(*                                                                         *)
(* A table is [tem_alvo, linhas]: whether it has the target column, and    *)
(* the sequence of its rows.  The model keeps one raw categorical feature  *)
(* (uf), the derived one (periodo_dia) and the numeric features the        *)
(* derivation reads or writes; the other feature columns go through the    *)
(* same loops of encode_features and prepare_data.  A text cell is a       *)
(* string, Nulo when missing; a numeric cell is Num(v) or NA.              *)
(***************************************************************************)
Nulo == "<NA>"

\* Series.astype(str) on a text cell: a missing cell reads 'nan'.
AsTexto(v) == IF v = Nulo THEN "nan" ELSE v

\* Every text of the model in the order sorted() and np.unique give.
OrdemTexto ==
    <<"Com Vitimas", "Ignorado", "MG", "Madrugada", "Manhã", "Noite", "RJ", "SP",
      "Sem Vitimas", "Tarde", "nan">>

\* __init__, lines 12-27
ClassifierInit(random_state) ==
    [random_state |-> random_state,
     label_encoders |-> [c \in {} |-> <<>>],
     target_encoder |-> [nulo |-> TRUE, classes |-> <<>>],
     scaler |-> [ajustado |-> FALSE, n |-> 0, soma |-> 0],
     model |-> [nulo |-> TRUE, tipo |-> "None", classes |-> {}, regra |-> <<>>,
                ajustado_com |-> <<>>],
     features_categoricas |-> <<"uf", "periodo_dia">>,
     features_numericas |-> <<"hora", "dia_semana_num", "eh_fim_semana", "eh_noite">>,
     target |-> "classificacao_acidente"]

\* line 12: random_state=42
RandomStatePadrao == 42

\* pd.cut(x, bins, labels, include_lowest=True) with the default right=True:
\* bin i is (bins[i], bins[i+1]], the first one also holds bins[1]; a value
\* in no bin, or a missing one, gives a missing label.
Cut(x, bins, labels, include_lowest) ==
    IF IsNA(x) THEN Nulo
    ELSE LET dentro(i) == \/ (x.n > bins[i] * Milli /\ x.n <= bins[i + 1] * Milli)
                          \/ (include_lowest /\ i = 1 /\ x.n = bins[1] * Milli)
             S == { i \in 1..(Len(bins) - 1) : dentro(i) }
         IN  IF S = {} THEN Nulo ELSE labels[CHOOSE i \in S : TRUE]

LimitesPeriodo == <<0, 6, 12, 18, 24>>

RotulosPeriodo == <<"Madrugada", "Manhã", "Tarde", "Noite">>

\* lines 33-38
PeriodoDia(hora) == Cut(hora, LimitesPeriodo, RotulosPeriodo, TRUE)

\* line 32: a comparison with a missing value is False
EhNoite(hora) ==
    IF ~IsNA(hora) /\ (hora.n >= 18 * Milli \/ hora.n < 6 * Milli) THEN 1 ELSE 0

\* line 31
EhFimSemana(dia_semana_num) == IF dia_semana_num \in {5, 6} THEN 1 ELSE 0

\* lines 31-34: the columns create_features reads, df['dia_semana_num'] and
\* df['hora']; a table without one of them raises KeyError.
S_dia_semana_num == S_dia_semana \o <<"_", "n", "u", "m">>
ColunasLidas == <<S_dia_semana_num, S_hora>>

\* create_features, lines 29-39
create_features(df) ==
    [tem_alvo |-> df.tem_alvo,
     linhas |-> [i \in 1..Len(df.linhas) |->
        [uf |-> df.linhas[i].uf, hora |-> df.linhas[i].hora,
         dia_semana_num |-> df.linhas[i].dia_semana_num,
         alvo |-> df.linhas[i].alvo,
         eh_fim_semana |-> EhFimSemana(df.linhas[i].dia_semana_num),
         eh_noite |-> EhNoite(df.linhas[i].hora),
         periodo_dia |-> PeriodoDia(df.linhas[i].hora)]]]

\* LabelEncoder: classes_ is the sorted list of the distinct values, a code
\* is a position in it, counted from 0.
LabelEncoderFit(valores) ==
    [nulo |-> FALSE, classes |-> SelectSeq(OrdemTexto, LAMBDA s : s \in Range(valores))]

Transform(le, x) == IndexOf(le.classes, x) - 1

\* Variant: a value out of the vocabulary takes the code of the first class.
Codigo_PrimeiraClasse(le, x) ==
    IF x \in Range(le.classes) THEN Transform(le, x) ELSE 0

\* lines 54 and 66: le.transform([x])[0] if x in le.classes_ else -1
Codigo(le, x) == IF x \in Range(le.classes) THEN Transform(le, x) ELSE -1

\* A cell of an encoded categorical column: a code, or the text left as it
\* was when apply mode has no encoder for the column (line 51).
Codificada(k) == [t |-> "cod", cod |-> k, str |-> ""]

NaoCodificada(s) == [t |-> "str", cod |-> 0, str |-> s]

ValorDe(linha, col) == IF col = "uf" THEN linha.uf ELSE linha.periodo_dia

\* df[col].astype(str)
ColunaDe(df, col) == [i \in 1..Len(df.linhas) |-> AsTexto(ValorDe(df.linhas[i], col))]

SemErro == "None"

\* line 48: le.fit_transform, on the texts the encoder was fitted on
AjustarETransformar(le, textos) ==
    [i \in 1..Len(textos) |-> Codificada(Transform(le, textos[i]))]

\* lines 53-55: the texts mapped through the fitted encoder
Mapear(le, textos) == [i \in 1..Len(textos) |-> Codificada(Codigo(le, textos[i]))]

\* lines 44-55 for one column: the cells of the encoded column
CodificarColuna(self, df, col, fit) ==
    IF fit THEN AjustarETransformar(LabelEncoderFit(ColunaDe(df, col)), ColunaDe(df, col))
    ELSE IF col \in DOMAIN self.label_encoders
    THEN Mapear(self.label_encoders[col], ColunaDe(df, col))
    ELSE [i \in 1..Len(df.linhas) |-> NaoCodificada(ValorDe(df.linhas[i], col))]

\* lines 46-49: in fit mode every categorical column gets a fresh encoder
CodificadoresApos(self, df, fit) ==
    IF fit
    THEN [c \in (DOMAIN self.label_encoders) \cup Range(self.features_categoricas) |->
             IF c \in Range(self.features_categoricas)
             THEN LabelEncoderFit(ColunaDe(df, c))
             ELSE self.label_encoders[c]]
    ELSE self.label_encoders

AlvoDe(df) == [i \in 1..Len(df.linhas) |-> AsTexto(df.linhas[i].alvo)]

\* lines 57-67: the target's encoder and the column target_encoded
CodificadorDoAlvoApos(self, df, fit) ==
    IF df.tem_alvo /\ fit THEN LabelEncoderFit(AlvoDe(df)) ELSE self.target_encoder

\* The encoded table: the two encoded columns next to the numeric ones, and
\* target_encoded (lines 60-67) when the table has the target.
Codificado(depois, df, uf, periodo, tem_y) ==
    [self |-> depois,
     df |-> [tem_y |-> tem_y,
             linhas |-> [i \in 1..Len(df.linhas) |->
                 [uf |-> uf[i], periodo_dia |-> periodo[i],
                  hora |-> df.linhas[i].hora,
                  dia_semana_num |-> df.linhas[i].dia_semana_num,
                  eh_fim_semana |-> df.linhas[i].eh_fim_semana,
                  eh_noite |-> df.linhas[i].eh_noite,
                  de |-> i,
                  target_encoded |-> IF tem_y
                                     THEN Codigo(depois.target_encoder,
                                                 AsTexto(df.linhas[i].alvo))
                                     ELSE 0]]]]

\* encode_features, lines 41-69: the instance and the encoded table
encode_features(self, df, fit) ==
    Codificado([self EXCEPT !.label_encoders = CodificadoresApos(self, df, fit),
                            !.target_encoder = CodificadorDoAlvoApos(self, df, fit)],
               df,
               CodificarColuna(self, df, "uf", fit),
               CodificarColuna(self, df, "periodo_dia", fit),
               df.tem_alvo /\ (fit \/ ~self.target_encoder.nulo))

\* X.notna().all(axis=1) for one row (line 85); an encoded cell is never
\* missing, a cell left as text is missing when the raw value was.
SemFaltas(linha) ==
    /\ ~IsNA(linha.hora)
    /\ ~(linha.uf.t = "str" /\ linha.uf.str = Nulo)
    /\ ~(linha.periodo_dia.t = "str" /\ linha.periodo_dia.str = Nulo)

RECURSIVE Soma(_)
Soma(s) == IF s = <<>> THEN 0 ELSE Head(s) + Soma(Tail(s))

\* StandardScaler.fit: the statistics kept are the count and the sum of the
\* hours (the mean, as a fraction).
ScalerFit(X) ==
    [ajustado |-> TRUE, n |-> Len(X), soma |-> Soma([i \in 1..Len(X) |-> X[i].hora.n])]

\* StandardScaler.transform of one hour: its distance to the mean, times n.
Escalar(scaler, hora) == hora.n * scaler.n - scaler.soma

\* A scaler that was never fitted, or whose fit failed: fit() resets the
\* statistics before it validates the data.
SemEscala == [ajustado |-> FALSE, n |-> 0, soma |-> 0]

\* lines 92-97 of prepare_data, on the encoded table e and its complete rows X
Preparar(e, X, fit) ==
    LET erro == IF fit
                THEN (IF Len(X) = 0 THEN "ValueError: 0 samples" ELSE SemErro)
                ELSE IF ~e.self.scaler.ajustado THEN "NotFittedError"
                ELSE IF Len(X) = 0 THEN "ValueError: 0 samples"
                ELSE SemErro
        scaler == IF ~fit THEN e.self.scaler
                  ELSE IF erro = SemErro THEN ScalerFit(X)
                  ELSE SemEscala
    IN  [self |-> [e.self EXCEPT !.scaler = scaler],
         erro |-> erro,
         tem_y |-> e.df.tem_y,
         X |-> IF erro # SemErro THEN <<>>
               ELSE [i \in 1..Len(X) |->
                        [uf |-> X[i].uf, periodo_dia |-> X[i].periodo_dia,
                         hora |-> Escalar(scaler, X[i].hora), de |-> X[i].de]],
         y |-> IF erro # SemErro \/ ~e.df.tem_y THEN <<>>
               ELSE [i \in 1..Len(X) |-> X[i].target_encoded]]

\* lines 75-90: the rows the mask keeps go on to the scaler
Mascarar(e, fit) == Preparar(e, SelectSeq(e.df.linhas, SemFaltas), fit)

\* lines 72-73: create_features, then encode_features
Codificar(self, df, fit) == encode_features(self, create_features(df), fit)

\* prepare_data, lines 71-97: the instance, X, y and the error raised, if any
prepare_data(self, df, fit) ==
    Mascarar(Codificar(self, df, fit), fit)

\* line 99: test_size=0.2, in hundredths
TestSizePct == 20

\* train_test_split(..., stratify=y), lines 104-106: every class needs two
\* members, and the test and the train part one place per class.
SplitValido(y) ==
    LET n_test == (Len(y) * TestSizePct + 99) \div 100
        n_train == Len(y) - n_test
        classes == Range(y)
    IN  /\ \A c \in classes : Cardinality({ i \in 1..Len(y) : y[i] = c }) >= 2
        /\ n_train >= Cardinality(classes)
        /\ n_test >= Cardinality(classes)
        /\ n_train >= 1

ModelosSuportados == {"random_forest", "gradient_boosting"}

Minimo(S) == CHOOSE x \in S : \A z \in S : x <= z

Maximo(S) == CHOOSE x \in S : \A z \in S : x >= z

\* What fitting learns: a class for every sign of the scaled hour, always
\* among the classes of y.  "aprendido" stands for the outcome of the fit.
Regra(classes, aprendido) ==
    [s \in {-1, 0, 1} |->
        IF aprendido = "min" THEN Minimo(classes)
        ELSE IF aprendido = "max" THEN Maximo(classes)
        ELSE IF s < 0 THEN Minimo(classes) ELSE Maximo(classes)]

\* The encoders and the scaler that produced the X and y a model is fitted on.
Transformadores(self) ==
    [label_encoders |-> self.label_encoders, target_encoder |-> self.target_encoder,
     scaler |-> self.scaler]

\* The fitted model (line 130); ajustado_com records the encoders and the
\* scaler its training data went through.
ModeloAjustado(self, model_type, y, aprendido) ==
    [nulo |-> FALSE, tipo |-> model_type, classes |-> Range(y),
     regra |-> Regra(Range(y), aprendido), ajustado_com |-> Transformadores(self)]

Resultado(self, erro, rotulos, de) == [self |-> self, erro |-> erro, rotulos |-> rotulos, de |-> de]

\* lines 104-154 of train, on what prepare_data returned
Treinar(p, model_type, aprendido) ==
    IF p.erro # SemErro THEN Resultado(p.self, p.erro, <<>>, <<>>)
    ELSE IF ~SplitValido(p.y) THEN Resultado(p.self, "ValueError: split", <<>>, <<>>)
    ELSE IF model_type \in ModelosSuportados
    THEN Resultado([p.self EXCEPT !.model = ModeloAjustado(p.self, model_type, p.y, aprendido)],
                   SemErro, <<>>, <<>>)
    ELSE Resultado(p.self, "ValueError: model type not supported", <<>>, <<>>)

\* line 100: df[df[self.target].notna()]
Filtrada(df) == [df EXCEPT !.linhas = SelectSeq(df.linhas, LAMBDA l : l.alvo # Nulo)]

\* train, lines 99-154
train(self, df, model_type, aprendido) ==
    IF ~df.tem_alvo THEN Resultado(self, "KeyError", <<>>, <<>>)
    ELSE Treinar(prepare_data(self, Filtrada(df), TRUE), model_type, aprendido)

Sinal(x) == IF x < 0 THEN -1 ELSE IF x > 0 THEN 1 ELSE 0

\* Variant: the code itself, as text, is returned as the label.
InverseTransform_Codigo(le, c) == ToString(c)

\* line 159: target_encoder.inverse_transform of one code
InverseTransform(le, c) == le.classes[c + 1]

\* Variant: predict prepares the data in fit mode.
FitEmPredict_Verdadeiro == TRUE

\* line 157: prepare_data(df, fit=False)
FitEmPredict == FALSE

\* lines 158-165 of predict, on what prepare_data returned
Prever(p) ==
    LET predictions == [i \in 1..Len(p.X) |-> p.self.model.regra[Sinal(p.X[i].hora)]]
        classes == p.self.target_encoder.classes
    IN  IF p.erro # SemErro THEN Resultado(p.self, p.erro, <<>>, <<>>)
        ELSE IF p.self.model.nulo THEN Resultado(p.self, "AttributeError", <<>>, <<>>)
        ELSE IF \E i \in 1..Len(p.X) : p.X[i].uf.t = "str" \/ p.X[i].periodo_dia.t = "str"
        THEN Resultado(p.self, "ValueError: could not convert string to float", <<>>, <<>>)
        ELSE IF p.self.target_encoder.nulo THEN Resultado(p.self, "AttributeError", <<>>, <<>>)
        ELSE IF \E i \in 1..Len(predictions) : predictions[i] \notin 0..(Len(classes) - 1)
        THEN Resultado(p.self, "ValueError: unseen labels", <<>>, <<>>)
        ELSE Resultado(p.self, SemErro,
                       [i \in 1..Len(predictions) |->
                           InverseTransform(p.self.target_encoder, predictions[i])],
                       [i \in 1..Len(p.X) |-> p.X[i].de])

\* predict, lines 156-165: the labels, and the input row each one is for
predict(self, df) == Prever(prepare_data(self, df, FitEmPredict))

\* line 157: predict starts the feature preparation of its input
LinhaDoPreparo == 157

\* The line of the source that raises each error of predict: scaler.transform
\* (line 95) after create_features and encode_features have run (lines
\* 72-73), model.predict (line 158), inverse_transform (line 159).
LinhaDoErro(erro) ==
    IF erro \in {"NotFittedError", "ValueError: 0 samples"} THEN 95
    ELSE IF erro \in {"AttributeError", "ValueError: could not convert string to float"}
    THEN 158
    ELSE 159

\* save_model and load_model: the bundle directory holds five files, written
\* and read in this order.
Pacote == <<"model.pkl", "label_encoders.pkl", "target_encoder.pkl", "scaler.pkl",
            "metadata.pkl">>

Ausente == [existe |-> FALSE, conteudo |-> <<>>]

Gravado(conteudo) == [existe |-> TRUE, conteudo |-> conteudo]

DiscoVazio == [k \in 1..Len(Pacote) |-> Ausente]

\* lines 183-188
Metadata(self) ==
    [features_categoricas |-> self.features_categoricas,
     features_numericas |-> self.features_numericas,
     target |-> self.target,
     random_state |-> self.random_state]

\* What pickle.dump writes to the k-th file (lines 171-191).
Parte(self, k) ==
    IF k = 1 THEN self.model
    ELSE IF k = 2 THEN self.label_encoders
    ELSE IF k = 3 THEN self.target_encoder
    ELSE IF k = 4 THEN self.scaler
    ELSE Metadata(self)

\* save_model, lines 167-191: the files are written one after the other; an
\* I/O error stops the call after the first "escritos" files.
save_model(self, dsk, escritos) ==
    [disco |-> [k \in 1..Len(Pacote) |->
                   IF k <= escritos THEN Gravado(Parte(self, k)) ELSE dsk[k]],
     erro |-> IF escritos < Len(Pacote) THEN "OSError" ELSE SemErro]

\* Variant: the scaler is read from the target encoder's file.
Restaurar_EscalaTrocada(self, k, conteudo) ==
    IF k = 1 THEN [self EXCEPT !.model = conteudo]
    ELSE IF k = 2 THEN [self EXCEPT !.label_encoders = conteudo]
    ELSE IF k = 3 THEN [self EXCEPT !.target_encoder = conteudo]
    ELSE IF k = 4 THEN self
    ELSE [self EXCEPT !.features_categoricas = conteudo.features_categoricas,
                      !.features_numericas = conteudo.features_numericas,
                      !.target = conteudo.target,
                      !.random_state = conteudo.random_state]

\* What reading the k-th file assigns (lines 196-213).
Restaurar(self, k, conteudo) ==
    IF k = 1 THEN [self EXCEPT !.model = conteudo]
    ELSE IF k = 2 THEN [self EXCEPT !.label_encoders = conteudo]
    ELSE IF k = 3 THEN [self EXCEPT !.target_encoder = conteudo]
    ELSE IF k = 4 THEN [self EXCEPT !.scaler = conteudo]
    ELSE [self EXCEPT !.features_categoricas = conteudo.features_categoricas,
                      !.features_numericas = conteudo.features_numericas,
                      !.target = conteudo.target,
                      !.random_state = conteudo.random_state]

\* The instance after the files k..lidos have been read.
RECURSIVE RestaurarAte(_, _, _, _)
RestaurarAte(self, dsk, k, lidos) ==
    IF k > lidos THEN self
    ELSE RestaurarAte(Restaurar(self, k, dsk[k].conteudo), dsk, k + 1, lidos)

\* The number of files open() finds before the first missing one.
ArquivosLegiveis(dsk) ==
    IF \A k \in 1..Len(Pacote) : dsk[k].existe THEN Len(Pacote)
    ELSE Minimo({ k \in 1..Len(Pacote) : ~dsk[k].existe }) - 1

\* load_model, lines 193-213: each file is read and assigned in turn; a
\* missing file stops the call there.
load_model(self, dsk) ==
    LET lidos == ArquivosLegiveis(dsk)
    IN  Resultado(RestaurarAte(self, dsk, 1, lidos),
                  IF lidos < Len(Pacote) THEN "FileNotFoundError" ELSE SemErro,
                  <<>>, <<>>)

(***************************************************************************)
(* The classifier's life: two instances, the one the training script       *)
(* builds and a fresh one such as scripts/test_model.py builds, and one    *)
(* bundle directory.                                                       *)
(***************************************************************************)
MaxChamadas == 3

Instancias == {1, 2}

\* One accident record: state, hour, day of the week, severity.
Registro(uf, hora, dia_semana_num, alvo) ==
    [uf |-> uf, hora |-> hora, dia_semana_num |-> dia_semana_num, alvo |-> alvo]

Tabela(tem_alvo, linhas) == [tem_alvo |-> tem_alvo, linhas |-> linhas]

Hora(h) == Num(h * Milli)

\* Two classes of three records each, one record without severity and one
\* without hour.
TreinoDuasClasses ==
    Tabela(TRUE,
      <<Registro("SP", Hora(6), 0, "Com Vitimas"), Registro("RJ", Hora(18), 5, "Sem Vitimas"),
        Registro("SP", Hora(6), 1, "Com Vitimas"), Registro("RJ", Hora(18), 6, Nulo),
        Registro("RJ", Hora(18), 6, "Sem Vitimas"), Registro("SP", NA, 2, "Com Vitimas"),
        Registro("SP", Hora(6), 2, "Com Vitimas"), Registro("RJ", Hora(18), 5, "Sem Vitimas")>>)

\* Another vocabulary, and a single class.
TreinoOutraClasse ==
    Tabela(TRUE,
      <<Registro("MG", Hora(23), 1, "Ignorado"), Registro("MG", Hora(1), 3, "Ignorado")>>)

\* No record has a usable hour.
TreinoSemAmostras ==
    Tabela(TRUE, <<Registro("MG", NA, 1, "Ignorado"), Registro("SP", Hora(3), 1, Nulo)>>)

TabelasDeTreino == {TreinoDuasClasses, TreinoOutraClasse, TreinoSemAmostras}

\* New records: a state the encoder has seen and one it has not, a record
\* without hour between them.
NovosRegistros ==
    Tabela(FALSE,
      <<Registro("MG", Hora(23), 5, Nulo), Registro("RJ", NA, 1, Nulo),
        Registro("SP", Hora(6), 0, Nulo)>>)

\* New records that carry the severity column.
NovosComAlvo ==
    Tabela(TRUE,
      <<Registro("RJ", Hora(18), 6, "Ignorado"), Registro("SP", Hora(12), 3, "Sem Vitimas")>>)

NovosSemHora == Tabela(FALSE, <<Registro("SP", NA, 0, Nulo)>>)

\* New records, one without state and one without hour.
NovosSemUf ==
    Tabela(FALSE,
      <<Registro(Nulo, Hora(6), 0, Nulo), Registro("SP", NA, 1, Nulo),
        Registro("RJ", Hora(18), 2, Nulo)>>)

TabelasDePredicao == {NovosRegistros, NovosComAlvo, NovosSemHora, NovosSemUf}

\* The calls to train: the model type and what the fit learns.
Treinos ==
    {<<"random_forest", "min">>, <<"random_forest", "max">>, <<"random_forest", "sinal">>,
     <<"gradient_boosting", "sinal">>, <<"svm", "sinal">>}

Chamada(nome, i, df, erro, rotulos, de, saida) ==
    [op |-> nome, inst |-> i, df |-> df, erro |-> erro, rotulos |-> rotulos, de |-> de,
     saida |-> saida]

\* What every call records: the state before it, the call and its outcome.
Registrar(c) ==
    /\ clf_antes' = clf
    /\ disco_antes' = disco
    /\ chamada' = c
    /\ historico' = IF c.erro = SemErro THEN Append(historico, <<c.op, c.inst>>)
                    ELSE historico
    /\ nclf' = nclf + 1
    /\ UNCHANGED <<cleanerVars, loaderVars, anosVars>>

\* A call on instance i with outcome r: the instance takes what the call
\* left, the bundle directory stays.
Efetuar(nome, i, df, r, saida) ==
    /\ clf' = [clf EXCEPT ![i] = r.self]
    /\ disco' = disco
    /\ Registrar(Chamada(nome, i, df, r.erro, r.rotulos, r.de, saida))

\* classifier.train(df, model_type=...), scripts/train_model.py
Train ==
    /\ nclf < MaxChamadas
    /\ \E df \in TabelasDeTreino, t \in Treinos :
          Efetuar("train", 1, df, train(clf[1], df, t[1], t[2]), t[1])

\* classifier.predict(df)
Predict ==
    /\ nclf < MaxChamadas
    /\ \E i \in Instancias, df \in TabelasDePredicao :
          Efetuar("predict", i, df, predict(clf[i], df), <<>>)

\* classifier.save_model(path); the write may fail after any of the files.
SaveModel ==
    /\ nclf < MaxChamadas
    /\ \E escritos \in 0..Len(Pacote) :
          LET r == save_model(clf[1], disco, escritos)
          IN  /\ clf' = clf
              /\ disco' = r.disco
              /\ Registrar(Chamada("save_model", 1, <<>>, r.erro, <<>>, <<>>, escritos))

\* classifier.load_model(path)
LoadModel ==
    /\ nclf < MaxChamadas
    /\ \E i \in Instancias :
          Efetuar("load_model", i, <<>>, load_model(clf[i], disco), <<>>)

\* The seeds the first instance is built with; the second one takes the default.
Sementes == {RandomStatePadrao, 7}

Construidos ==
    /\ \E semente \in Sementes :
          clf = [i \in Instancias |->
                    ClassifierInit(IF i = 1 THEN semente ELSE RandomStatePadrao)]
    /\ clf_antes = clf
    /\ disco = DiscoVazio
    /\ disco_antes = disco
    /\ chamada = Chamada("__init__", 0, <<>>, SemErro, <<>>, <<>>, <<>>)
    /\ historico = <<>>
    /\ nclf = 0

InitClf == CleanerIdle /\ LoaderIdle /\ AnosIdle /\ Construidos

NextClf == Train \/ Predict \/ SaveModel \/ LoadModel

SpecClf == InitClf /\ [][NextClf]_vars

\* create_features on one record, for every hour of the day and a missing one.
HorasDoDia == { Hora(h) : h \in 0..24 } \cup {NA}

DiasDaSemana == 0..6

CriarAtributos ==
    /\ \E hora \in HorasDoDia, dia \in DiasDaSemana :
          LET df == Tabela(FALSE, <<Registro("SP", hora, dia, Nulo)>>)
          IN  chamada' = Chamada("create_features", 1, df, SemErro, <<>>, <<>>,
                                 create_features(df))
    /\ UNCHANGED <<clf, clf_antes, disco, disco_antes, historico, nclf>>
    /\ UNCHANGED <<cleanerVars, loaderVars, anosVars>>

NextAtributos == CriarAtributos

SpecAtributos == InitClf /\ [][NextAtributos]_vars

(***************************************************************************)
(* Properties of the cleaner.                                              *)
(***************************************************************************)
\* Two tables with the same columns, rows and cell values (missing cells
\* included); the dtype is not compared.
MesmaTabela(a, b) ==
    /\ a.n = b.n
    /\ ColNames(a) = ColNames(b)
    /\ \A j \in 1..Len(a.cols) : a.cols[j].vals = b.cols[j].vals

SemNA(col) == \A i \in 1..Len(col.vals) : ~IsNA(col.vals[i])

\* C1: DataCleaner.executar is idempotent: executar applied to a table that
\* executar returned gives that table again (same columns, rows and cells).
C1_ExecutarIdempotente ==
    op = "executar" => MesmaTabela(executar(limpador, tabela), tabela)

\* C2: in the table executar returns, no numeric column (latitude and
\* longitude included) holds a missing value.
C2_NumericasSemAusentes ==
    op = "executar" =>
        \A j \in 1..Len(tabela.cols) :
            IsNumberDtype(tabela.cols[j].dtype) => SemNA(tabela.cols[j])

\* Two rows with the same present value in every column.  A missing cell
\* is taken to equal nothing, as NaN does; drop_duplicates, which takes two
\* missing cells as equal, finds these rows duplicates too.
LinhasIguais(t, i, j) ==
    \A c \in 1..Len(t.cols) :
        ~IsNA(t.cols[c].vals[i]) /\ t.cols[c].vals[i] = t.cols[c].vals[j]

\* C3: the table executar returns holds no two rows equal in every column.
C3_SemLinhasDuplicadas ==
    op = "executar" =>
        \A i, j \in 1..tabela.n : i # j => ~LinhasIguais(tabela, i, j)

\* The number a coordinate text stands for, decimal comma accepted, for the
\* texts the raw tables and the imputation put in a coordinate column; any
\* other text is not a number.
ValorDoTexto(s) ==
    CASE s = <<"-", "2", "2", ",", "9">> -> Num(-22900)
      [] s = <<"-", "2", "2", ".", "9">> -> Num(-22900)
      [] s = <<"5">> -> Num(5000)
      [] s = <<"1", "0", ".", "5">> -> Num(10500)
      [] s = <<"-", "4", "3", ",", "2">> -> Num(-43200)
      [] OTHER -> NA

ValorDaCelula(c) == IF c.k = "num" THEN c ELSE IF c.k = "str" THEN ValorDoTexto(c.s) ELSE NA

\* The cell the claim expects of a coordinate: its numeric value when that
\* lies in [lo, hi] degrees, missing otherwise.
CoordenadaEsperada(c, lo, hi) ==
    LET v == ValorDaCelula(c)
    IN  IF v.k = "num" /\ lo * Milli <= v.n /\ v.n <= hi * Milli THEN v ELSE NA

\* C4: after corrigir_coordenadas_geograficas every latitude is in [-35, 5]
\* or missing and every longitude in [-75, -30] or missing; a value inside
\* its range (bounds included, decimal comma accepted) keeps its numeric
\* value, any other becomes missing; no row is added or removed and the
\* other columns are untouched.
C4_CoordenadasCorrigidas ==
    op = "corrigir_coordenadas_geograficas" =>
        /\ tabela.n = anterior.n
        /\ ColNames(tabela) = ColNames(anterior)
        /\ \A j \in 1..Len(tabela.cols) :
             LET antes == anterior.cols[j]
                 depois == tabela.cols[j]
             IN  /\ Len(depois.vals) = anterior.n
                 /\ IF depois.nome = limpador.coluna_latitude
                    THEN \A i \in 1..anterior.n :
                            depois.vals[i] = CoordenadaEsperada(antes.vals[i], -35, 5)
                    ELSE IF depois.nome = limpador.coluna_longitude
                    THEN \A i \in 1..anterior.n :
                            depois.vals[i] = CoordenadaEsperada(antes.vals[i], -75, -30)
                    ELSE depois = antes

\* C4, witness: a correction that kept a decimal-comma latitude and the
\* boundary latitude 5 and nulled the out-of-range latitude 10.5.
C4_Witness ==
    /\ op = "corrigir_coordenadas_geograficas"
    /\ HasCol(anterior, S_latitude)
    /\ anterior.n = 2
    /\ \E i, j \in 1..2 :
         /\ GetCol(anterior, S_latitude).vals[i] \in {Txt(<<"-", "2", "2", ",", "9">>), Txt(<<"5">>)}
         /\ GetCol(tabela, S_latitude).vals[i] \in {Num(-22900), Num(5000)}
         /\ GetCol(anterior, S_latitude).vals[j] = Txt(<<"1", "0", ".", "5">>)
         /\ GetCol(tabela, S_latitude).vals[j] = NA

\* C5: tratar_valores_ausentes removes a column exactly when more than 95%
\* of its entries are missing; a column with exactly 95% missing is kept.
C5_RemoveAcimaDe95 ==
    op = "tratar_valores_ausentes" =>
        \A j \in 1..Len(anterior.cols) :
            LET c == anterior.cols[j]
                faltam == Cardinality({i \in 1..anterior.n : IsNA(c.vals[i])})
            IN  HasCol(tabela, c.nome) <=> ~(anterior.n > 0 /\ faltam * 100 > 95 * anterior.n)

\* C5, witness: a column with 19 of 20 entries missing was kept.
C5_Witness ==
    /\ op = "tratar_valores_ausentes"
    /\ anterior.n = 20
    /\ \E j \in 1..Len(anterior.cols) :
         /\ Cardinality({i \in 1..20 : IsNA(anterior.cols[j].vals[i])}) = 19
         /\ HasCol(tabela, anterior.cols[j].nome)

\* The r-th smallest of the numbers of a sequence of cells.
DeOrdem(p, r) ==
    CHOOSE x \in {p[i].n : i \in 1..Len(p)} :
        /\ Cardinality({i \in 1..Len(p) : p[i].n < x}) < r
        /\ Cardinality({i \in 1..Len(p) : p[i].n <= x}) >= r

\* m is the median of the present values of a column: the middle one, or
\* the mean of the two middle ones.
EhMediana(m, col) ==
    LET p == SelectSeq(col.vals, LAMBDA c : c.k = "num")
        k == Len(p)
    IN  k > 0 /\ 2 * m = DeOrdem(p, (k + 1) \div 2) + DeOrdem(p, (k \div 2) + 1)

ColunasDerivadas == <<S_ano, S_mes, S_dia, S_hora, S_dia_semana>>

\* C7: whenever the input of processar_datas has one of the instance's
\* candidate date columns and that column comes out temporal (here: with a
\* parsed timestamp in it), the output has the five derived columns ano,
\* mes, dia, hora and dia_semana.
C7_DerivadasPresentes ==
    op = "processar_datas" =>
        ((\E k \in 1..Len(limpador.colunas_data) :
            /\ HasCol(anterior, limpador.colunas_data[k])
            /\ GetCol(tabela, limpador.colunas_data[k]).dtype = "datetime"
            /\ \E i \in 1..tabela.n :
                 GetCol(tabela, limpador.colunas_data[k]).vals[i].k = "dt")
         => \A d \in 1..Len(ColunasDerivadas) : HasCol(tabela, ColunasDerivadas[d]))

(***************************************************************************)
(* Properties of the CSV loading.                                          *)
(***************************************************************************)
\* The (encoding, delimiter) pairs in the order of two nested loops,
\* encodings outside.
Pares(cods, seps) ==
    [k \in 1..(Len(cods) * Len(seps)) |->
        Tentativa(cods[((k - 1) \div Len(seps)) + 1], seps[((k - 1) % Len(seps)) + 1], FALSE)]

IsPrefix(s, u) == Len(s) <= Len(u) /\ \A k \in 1..Len(s) : s[k] = u[k]

\* The reads of the pairs loop, without the read of the last resort.
DoLaco == SelectSeq(tentativas, LAMBDA t : ~t.tolerante)

LacoEsgotado == \E k \in 1..Len(tentativas) : tentativas[k].tolerante

\* What the claim is about, given the encodings to be tried in order: the
\* reads follow the pairs in order, every pair has been read once the loop
\* is over, no read follows a success, and a table returned by the loop is
\* the first successful pair's.
TentativasEmOrdem(cods) ==
    /\ IsPrefix(DoLaco, Pares(cods, separadores))
    /\ LacoEsgotado => DoLaco = Pares(cods, separadores)
    /\ \A k \in 1..(Len(tentativas) - 1) :
         Leitura(arquivo, tentativas[k].codif, tentativas[k].sep,
                 tentativas[k].tolerante) # "ok"
    /\ (pc = "returned" /\ ~LacoEsgotado) =>
         /\ retorno = TabelaLida(tentativas[Len(tentativas)])
         /\ Leitura(arquivo, retorno.de.codif, retorno.de.sep, FALSE) = "ok"

\* C8 as stated: the encodings are the declared/override one, then utf-8,
\* then latin-1, each crossed with the delimiter candidates; the first pair
\* that parses gives the table and nothing is read after it.
C8_OrdemDeclaradaUtf8Latin1 ==
    pc # "idle" =>
        TentativasEmOrdem((IF args.codificacao # Nenhum THEN <<args.codificacao>> ELSE <<>>)
                          \o <<"utf-8", "latin-1">>)

\* C8, amended: DataLoader tries its configured encoding, then utf-8, then
\* latin-1; _carregar_entrada tries the override alone when one is given and
\* utf-8 then latin-1 otherwise; each encoding is crossed with the delimiter
\* candidates in order, the first pair that parses gives the table and
\* nothing is read after it.
C8_OrdemDasTentativas ==
    pc # "idle" =>
        TentativasEmOrdem(IF rotina = "DataLoader"
                          THEN <<args.codificacao, "utf-8", "latin-1">>
                          ELSE IF args.codificacao # Nenhum THEN <<args.codificacao>>
                          ELSE <<"utf-8", "latin-1">>)

\* C8, witness: a table returned by a pair of the second encoding, after
\* every pair of the first one failed.
C8_Witness ==
    /\ pc = "returned"
    /\ ~LacoEsgotado
    /\ ic = 2
    /\ Len(tentativas) > Len(separadores)

\* A sequence without its repeats: the first occurrence of each element.
RECURSIVE SemRepetidos(_)
SemRepetidos(s) ==
    IF s = <<>> THEN <<>>
    ELSE LET ini == SemRepetidos(SubSeq(s, 1, Len(s) - 1))
         IN  IF s[Len(s)] \in Range(ini) THEN ini ELSE Append(ini, s[Len(s)])

Opcional(x) == IF x # Nenhum THEN <<x>> ELSE <<>>

Comuns == <<";", ",", "\t", "|">>

\* The k-th read of the pairs loop uses the k-th delimiter of the list,
\* starting over with each encoding.
SeparadoresSeguem(lista) ==
    \A k \in 1..Len(DoLaco) : DoLaco[k].sep = lista[((k - 1) % Len(lista)) + 1]

\* C9 as stated: the delimiters are tried in the order sniffed, explicit
\* override, ';', ',', tab, '|', and None last, each at most once.
C9_DetectadoPrimeiro ==
    pc # "idle" =>
        SeparadoresSeguem(
            SemRepetidos(Opcional(IF rotina = "DataLoader" THEN Nenhum ELSE arquivo.detectado)
                         \o Opcional(args.separador) \o Comuns \o <<Nenhum>>))

\* C9, amended: _carregar_entrada tries the explicit override first (when
\* given), then the sniffed delimiter (None when sniffing failed), then ';',
\* ',', tab, '|' and None, each at most once; DataLoader does not sniff and
\* tries its configured delimiter, None, ';', ',', tab, '|', repeats kept.
C9_OrdemDosSeparadores ==
    pc # "idle" =>
        LET lista == IF rotina = "DataLoader"
                     THEN <<args.separador, Nenhum>> \o Comuns
                     ELSE SemRepetidos(Opcional(args.separador) \o <<arquivo.detectado>>
                                       \o Comuns \o <<Nenhum>>)
        IN  /\ separadores = lista
            /\ SeparadoresSeguem(lista)
            /\ LacoEsgotado => Len(DoLaco) = Len(codificacoes) * Len(lista)

\* C9, witness: _carregar_entrada, with an override and a different sniffed
\* delimiter, has read with both and gone on to the common delimiters.
C9_Witness ==
    /\ rotina = "_carregar_entrada"
    /\ args.separador = "|"
    /\ arquivo.detectado = ";"
    /\ Len(tentativas) >= 3
    /\ tentativas[1].sep = "|"
    /\ tentativas[2].sep = ";"
    /\ tentativas[3].sep = ","

\* The call raised after the read of the last resort failed.
FalhouNoUltimoRecurso == pc = "raised" /\ LacoEsgotado

Encontrados == { k \in 1..Len(anos) : diretorio[anos[k]].existe }

TerminouAnos == pc_anos \in {"returned", "raised"}

\* The rows expected from position k of the list on, the j-th loaded table
\* being the next one: every found year's rows as its read gave them, in the
\* file's order, each with the year in 'ano'.
RECURSIVE LinhasEsperadas(_, _)
LinhasEsperadas(k, j) ==
    IF k > Len(anos) THEN <<>>
    ELSE LET f == diretorio[anos[k]]
         IN  IF ~f.existe THEN LinhasEsperadas(k + 1, j)
             ELSE LET lidas == IF leituras[j].tolerante
                               THEN SelectSeq(f.linhas, LAMBDA l : l.boa)
                               ELSE f.linhas
                  IN  [i \in 1..Len(lidas) |->
                          [de |-> lidas[i].de, boa |-> lidas[i].boa, ano |-> anos[k]]]
                      \o LinhasEsperadas(k + 1, j + 1)

ResultadoDaCarga(f) ==
    LET cods == <<args.codificacao, "utf-8", "latin-1">>
        seps == <<args.separador, Nenhum, ";", ",", "\t", "|">>
        r(c, s) == Leitura(f.arq, cods[c], seps[s], FALSE)
        decide(c, s) == r(c, s) \notin {"ParserError", "UnicodeDecodeError"}
        antes(c, s, d, e) == c < d \/ (c = d /\ s < e)
    IN  IF \E c \in 1..3, s \in 1..6 : decide(c, s)
        THEN LET p == CHOOSE q \in (1..3) \X (1..6) :
                         /\ decide(q[1], q[2])
                         /\ \A c \in 1..3, s \in 1..6 :
                               antes(c, s, q[1], q[2]) => ~decide(c, s)
             IN  r(p[1], p[2])
        ELSE IF Leitura(f.arq, args.codificacao, args.separador, TRUE) = "ok" THEN "ok"
        ELSE r(3, 6)

Falhos == { k \in Encontrados : ResultadoDaCarga(diretorio[anos[k]]) # "ok" }

\* C12 as stated: the call raises if and only if no requested year has a
\* file; with at least one file it returns a table.
C12_FalhaSeESomenteSeNenhum ==
    TerminouAnos => ((pc_anos = "raised") <=> (Encontrados = {}))

\* C12, amended: the call raises FileNotFoundError if and only if no
\* requested year has a file; with at least one file it returns a table,
\* unless loading a found file fails: the error of the first such file in
\* the order supplied is then raised.
C12_FalhaSemArquivosOuNaCarga ==
    TerminouAnos =>
        IF Encontrados = {}
        THEN pc_anos = "raised" /\ retorno_anos.exc.tipo = "FileNotFoundError"
        ELSE IF Falhos = {}
        THEN pc_anos = "returned" /\ retorno_anos.ok
        ELSE LET k == CHOOSE x \in Falhos : \A m \in Falhos : x <= m
             IN  /\ pc_anos = "raised"
                 /\ retorno_anos.exc.tipo = ResultadoDaCarga(diretorio[anos[k]])
                 /\ retorno_anos.exc.tipo # "FileNotFoundError"

\* C12, witness: a found file was loaded, a later one failed to load and
\* its error was raised.
C12_Witness ==
    /\ pc_anos = "raised"
    /\ Len(dataframes_anos) > 0
    /\ retorno_anos.exc.tipo \in {"EmptyDataError", "ParserError"}

(***************************************************************************)
(* Properties of the classifier (SpecAtributos, SpecClf).                  *)
(***************************************************************************)

\* The period of the day with closed-lower/open-upper intervals.
PeriodoFechadoAbaixo(h) ==
    IF h < 6 THEN "Madrugada"
    ELSE IF h < 12 THEN "Manhã"
    ELSE IF h < 18 THEN "Tarde"
    ELSE "Noite"

\* C13: for every hour h in 0..23, create_features sets periodo_dia to
\* 'Madrugada' for h in [0,6), 'Manhã' for [6,12), 'Tarde' for [12,18) and
\* 'Noite' for [18,24).
C13_PeriodoFechadoAbaixo ==
    chamada.op = "create_features" =>
        \A h \in 0..23 :
            chamada.df.linhas[1].hora = Hora(h) =>
                chamada.saida.linhas[1].periodo_dia = PeriodoFechadoAbaixo(h)

\* The instance a call was made on, as it was before the call.
Antes == clf_antes[chamada.inst]

\* The table of the call with its derived columns, and its apply-mode encoding.
Derivada == create_features(chamada.df)

Aplicada == encode_features(Antes, Derivada, FALSE).df

\* Code c is the one value v got when the encoder was fitted, or -1 when v
\* was not among the fitted values.
CodigoDoAjuste(le, v, c) ==
    IF v \in Range(le.classes)
    THEN c \in 0..(Len(le.classes) - 1) /\ le.classes[c + 1] = v
    ELSE c = -1

\* C14: in apply mode every categorical feature value and every target
\* value outside the fitted vocabulary is encoded as -1, every value inside
\* it as its fit-time code, and the encoding raises nothing.
C14_ForaDoVocabularioMenosUm ==
    chamada.op = "predict" =>
        \A i \in 1..Len(Derivada.linhas) :
            /\ \A col \in DOMAIN Antes.label_encoders :
                  LET c == ValorDe(Aplicada.linhas[i], col)
                  IN  /\ c.t = "cod"
                      /\ CodigoDoAjuste(Antes.label_encoders[col],
                                        ColunaDe(Derivada, col)[i], c.cod)
            /\ (Derivada.tem_alvo /\ ~Antes.target_encoder.nulo) =>
                  /\ Aplicada.tem_y
                  /\ CodigoDoAjuste(Antes.target_encoder, AlvoDe(Derivada)[i],
                                    Aplicada.linhas[i].target_encoded)
            /\ chamada.erro \in {SemErro, "NotFittedError", "ValueError: 0 samples",
                                 "AttributeError", "ValueError: unseen labels"}

\* predict has returned labels for a table with a feature value and a target
\* value the encoders never saw, next to values they saw.
C14_Witness ==
    /\ chamada.op = "predict"
    /\ chamada.erro = SemErro
    /\ Derivada.tem_alvo
    /\ \E i \in 1..Len(Derivada.linhas) :
          /\ ColunaDe(Derivada, "periodo_dia")[i]
                \notin Range(Antes.label_encoders["periodo_dia"].classes)
          /\ Aplicada.linhas[i].periodo_dia.cod = -1
          /\ ColunaDe(Derivada, "uf")[i] \in Range(Antes.label_encoders["uf"].classes)
    /\ \E i, j \in 1..Len(Derivada.linhas) :
          /\ Aplicada.linhas[i].target_encoded = -1
          /\ Aplicada.linhas[j].target_encoded >= 0

\* The fitted parts of an instance.
Partes(self) ==
    [model |-> self.model, label_encoders |-> self.label_encoders,
     target_encoder |-> self.target_encoder, scaler |-> self.scaler]

\* Trained or Loaded: the instance holds a fitted model and a fitted scaler.
Treinada(self) == ~self.model.nulo /\ self.scaler.ajustado /\ ~self.target_encoder.nulo

\* C15: predict on a Trained or Loaded instance leaves the categorical
\* encoders, the target encoder, the scaler and the model as they were,
\* whatever table is passed and whether or not the call succeeds.
C15_PredictNaoReajusta ==
    (chamada.op = "predict" /\ Treinada(Antes)) =>
        /\ Partes(clf[chamada.inst]) = Partes(Antes)
        /\ clf = clf_antes

\* predict has returned labels for a table, with a target column, whose
\* values differ from the fitted vocabularies: a refit would show.
C15_Witness ==
    /\ chamada.op = "predict"
    /\ Treinada(Antes)
    /\ chamada.erro = SemErro
    /\ chamada.df.tem_alvo
    /\ LabelEncoderFit(AlvoDe(Derivada)) # Antes.target_encoder
    /\ LabelEncoderFit(ColunaDe(Derivada, "periodo_dia")) # Antes.label_encoders["periodo_dia"]

\* C16: when train raises the unsupported-model error, no encoder, target
\* encoder, scaler or model of the instance has been fitted or replaced.
C16_NadaAjustadoAntesDoErro ==
    (chamada.op = "train" /\ chamada.erro = "ValueError: model type not supported") =>
        Partes(clf[chamada.inst]) = Partes(Antes)

\* C17: when load_model follows a complete save_model of a Trained
\* instance, the loading instance holds the same model, encoders, target
\* encoder, scaler, feature lists, target name and seed as the saved one,
\* and predict gives the same outcome from both on every table.
C17_SalvarECarregar ==
    [][(/\ chamada.op = "save_model"
        /\ chamada.erro = SemErro
        /\ Treinada(clf[chamada.inst])
        /\ chamada'.op = "load_model")
       => /\ chamada'.erro = SemErro
          /\ Partes(clf'[chamada'.inst]) = Partes(clf[chamada.inst])
          /\ Metadata(clf'[chamada'.inst]) = Metadata(clf[chamada.inst])
          /\ \A df \in TabelasDePredicao :
                LET novo == predict(clf'[chamada'.inst], df)
                    original == predict(clf[chamada.inst], df)
                IN  novo.erro = original.erro /\ novo.rotulos = original.rotulos]_vars

\* A fresh instance has loaded the bundle a Trained instance, built with
\* another seed, had just saved.
C17_Witness ==
    /\ historico = <<<<"train", 1>>, <<"save_model", 1>>, <<"load_model", 2>>>>
    /\ nclf = Len(historico)
    /\ chamada.op = "load_model"
    /\ clf_antes[2] = ClassifierInit(RandomStatePadrao)
    /\ clf[1].random_state # RandomStatePadrao
    /\ Treinada(clf[2])
    /\ clf[2] = clf[1]
    /\ \E df \in TabelasDePredicao : predict(clf[2], df).rotulos # <<>>

\* The bundle directory with all five parts of an instance.
PacoteDe(self) == [k \in 1..Len(Pacote) |-> Gravado(Parte(self, k))]

\* save_model that stopped partway left the directory as it was or wrote
\* all five parts.
SalvarAtomico ==
    (chamada.op = "save_model" /\ chamada.erro # SemErro) =>
        (disco = disco_antes \/ disco = PacoteDe(Antes))

\* load_model that stopped partway left the instance as it was or loaded
\* all five parts.
CarregarAtomico ==
    (chamada.op = "load_model" /\ chamada.erro # SemErro) =>
        \/ clf[chamada.inst] = Antes
        \/ /\ \A k \in 1..Len(Pacote) : disco[k].existe
           /\ clf[chamada.inst] = RestaurarAte(Antes, disco, 1, Len(Pacote))

\* C18: after a save or a load that stops partway, the bundle directory,
\* respectively the instance, holds all five parts of the new version or
\* all parts of the previous state, never a mixture.
C18_TransferenciaAtomica == SalvarAtomico /\ CarregarAtomico

\* Untrained: no train and no load_model on the instance has succeeded.
NaoTreinada(i) == <<"train", i>> \notin Range(historico) /\ <<"load_model", i>> \notin Range(historico)

\* predict on an Untrained instance fails.
PredictSemTreinoFalha ==
    (chamada.op = "predict" /\ NaoTreinada(chamada.inst)) => chamada.erro # SemErro

\* C19: predict on an Untrained instance fails with an error, and the error
\* is raised before the feature preparation of the input starts.
C19_PredictSemTreinoFalhaAntes ==
    (chamada.op = "predict" /\ NaoTreinada(chamada.inst)) =>
        /\ chamada.erro # SemErro
        /\ LinhaDoErro(chamada.erro) < LinhaDoPreparo

\* C20: every label predict returns is one of the label strings of the
\* instance's fitted target encoder, never a code.
C20_RotulosDoCodificador ==
    (chamada.op = "predict" /\ chamada.erro = SemErro) =>
        /\ ~clf[chamada.inst].target_encoder.nulo
        /\ \A i \in 1..Len(chamada.rotulos) :
              chamada.rotulos[i] \in Range(clf[chamada.inst].target_encoder.classes)

\* predict has returned two different labels for a table one of whose
\* feature values was encoded as -1.
C20_Witness ==
    /\ chamada.op = "predict"
    /\ chamada.erro = SemErro
    /\ ~chamada.df.tem_alvo
    /\ \E i, j \in 1..Len(chamada.rotulos) : chamada.rotulos[i] # chamada.rotulos[j]
    /\ \E i \in Range(chamada.de) : Aplicada.linhas[i].uf.cod = -1

\* A row of the table with its derived columns has a value in every feature
\* column, categorical or numeric.
SemValorAusente(linha) ==
    linha.uf # Nulo /\ linha.periodo_dia # Nulo /\ ~IsNA(linha.hora)

\* The rows of the call's table without a missing feature value, in order.
LinhasSemAusentes ==
    SelectSeq(Indices(Len(Derivada.linhas)), LAMBDA i : SemValorAusente(Derivada.linhas[i]))

\* C21: prepare_data keeps exactly the rows without a missing value in any
\* feature column, categorical or numeric, in their original order.
C21_SoLinhasCompletas ==
    (chamada.op = "predict" /\ chamada.erro = SemErro) => chamada.de = LinhasSemAusentes

\* C27: predict returns one label per row of the input table, in input
\* order: the i-th label belongs to the i-th input row.
C27_UmRotuloPorLinha ==
    (chamada.op = "predict" /\ chamada.erro = SemErro) =>
        /\ Len(chamada.rotulos) = Len(chamada.df.linhas)
        /\ chamada.de = Indices(Len(chamada.df.linhas))

\* C26: in every reachable state, an instance that holds a model holds the
\* categorical encoders, the target encoder and the scaler that model was
\* fitted with.
C26_PacoteConsistente ==
    \A i \in Instancias :
        ~clf[i].model.nulo => clf[i].model.ajustado_com = Transformadores(clf[i])

(***************************************************************************)
(* Further properties of the CSV loading (SpecLoader).                     *)
(***************************************************************************)

\* C22: the lenient read is made at most once, only after every (encoding,
\* delimiter) pair has been read and has failed, and with the first
\* delimiter candidate and the last encoding candidate.
C22_UltimoRecursoUmaVez ==
    pc # "idle" =>
        \A k \in 1..Len(tentativas) :
            tentativas[k].tolerante =>
                /\ k = Len(tentativas)
                /\ k = Len(codificacoes) * Len(separadores) + 1
                /\ \A j \in 1..(k - 1) :
                      /\ ~tentativas[j].tolerante
                      /\ Leitura(arquivo, tentativas[j].codif, tentativas[j].sep, FALSE) # "ok"
                /\ tentativas[k] = Tentativa(codificacoes[Len(codificacoes)],
                                             separadores[1], TRUE)

\* What the k-th read of the run did: "ok" or the type of its exception.
ResultadoDaLeitura(k) ==
    Leitura(arquivo, tentativas[k].codif, tentativas[k].sep, tentativas[k].tolerante)

\* C29 as stated: in DataLoader's chain every failing read of a pair,
\* whatever its error type, leads to the next pair; an error reaches the
\* caller only after every pair and the lenient read have failed.
C29_TodaFalhaCapturada ==
    (rotina = "DataLoader" /\ pc = "raised") =>
        /\ LacoEsgotado
        /\ DoLaco = Pares(codificacoes, separadores)

\* C29, amended: in DataLoader's chain a read of a pair that fails with a
\* ParserError or a UnicodeDecodeError is captured and the run goes on with
\* the next pair, such an error reaching the caller only after every pair
\* and the lenient read have failed; a read that fails with an error of any
\* other type ends the run at once with that error.
C29_SoParserEUnicodeCapturadas ==
    rotina = "DataLoader" =>
        /\ \A k \in 1..Len(DoLaco) :
              LET r == ResultadoDaLeitura(k)
              IN  /\ r \in {"ParserError", "UnicodeDecodeError"} =>
                        \/ k < Len(tentativas)
                        \/ pc \in {"loop", "lenient"}
                  /\ r \notin {"ok", "ParserError", "UnicodeDecodeError"} =>
                        /\ k = Len(tentativas)
                        /\ pc = "raised"
                        /\ retorno = Levantada(Excecao(r, k))
        /\ (pc = "raised" /\ retorno.exc.tipo \in {"ParserError", "UnicodeDecodeError"}) =>
              /\ LacoEsgotado
              /\ DoLaco = Pares(codificacoes, separadores)

\* C29, witness: DataLoader's run ended at its first read, on an empty
\* file, with the lenient read never made.
C29_Witness ==
    /\ rotina = "DataLoader"
    /\ pc = "raised"
    /\ ~LacoEsgotado
    /\ arquivo.vazio
    /\ args.codificacao \in CodificacoesConhecidas
    /\ retorno.exc = Excecao("EmptyDataError", 1)

(***************************************************************************)
(* Further properties of the cleaner (Spec).                               *)
(***************************************************************************)
\* The columns of a table whose names are in a list of candidates.
ColunasEntre(t, candidatas) ==
    {k \in 1..Len(candidatas) : HasCol(t, candidatas[k])}

\* C23: processar_datas creates data_hora_completa whenever the table it is
\* given has a time-of-day column (one of colunas_hora) together with any
\* date column it resolves (one of colunas_data), data_inversa or not.
C23_CombinaComQualquerData ==
    (/\ op = "processar_datas"
     /\ ColunasEntre(anterior, limpador.colunas_hora) # {}
     /\ ColunasEntre(anterior, limpador.colunas_data) # {})
        => HasCol(tabela, S_data_hora_completa)

\* The part of C23 the code keeps: with data_inversa among the columns the
\* combined column is created.
C23_CombinaComDataInversa ==
    (/\ op = "processar_datas"
     /\ ColunasEntre(anterior, limpador.colunas_hora) # {}
     /\ HasCol(anterior, S_data_inversa))
        => HasCol(tabela, S_data_hora_completa)

\* The columns of a table that can be the source of the derived fields, as
\* positions in the priority order.
FontesTemporais(t) ==
    {k \in 1..Len(ColunasTemporais) :
        /\ HasCol(t, ColunasTemporais[k])
        /\ GetCol(t, ColunasTemporais[k]).dtype = "datetime"}

PrimeiraFonte(t) ==
    ColunasTemporais[CHOOSE k \in FontesTemporais(t) : \A j \in FontesTemporais(t) : k <= j]

\* The five derived columns of a table are the calendar fields of one column.
DerivadasVemDe(t, fonte) ==
    /\ \A k \in 1..Len(ColunasDerivadas) : HasCol(t, ColunasDerivadas[k])
    /\ GetCol(t, S_ano).vals = DtPart(GetCol(t, fonte), DtYear)
    /\ GetCol(t, S_mes).vals = DtPart(GetCol(t, fonte), DtMonth)
    /\ GetCol(t, S_dia).vals = DtPart(GetCol(t, fonte), DtDay)
    /\ GetCol(t, S_hora).vals = DtPart(GetCol(t, fonte), DtHour)
    /\ GetCol(t, S_dia_semana).vals = DtPart(GetCol(t, fonte), DtWeekday)

\* C24: in the table processar_datas returns, ano, mes, dia, hora and
\* dia_semana are the calendar fields of one column, the first of
\* data_hora_completa, data, date, data_inversa that is present with a
\* temporal type, whatever the lower-priority columns hold.
C24_UmaSoFonte ==
    (op = "processar_datas" /\ FontesTemporais(tabela) # {})
        => DerivadasVemDe(tabela, PrimeiraFonte(tabela))

\* A result with two temporal columns that give different derived fields.
C24_Witness ==
    /\ op = "processar_datas"
    /\ \E k \in FontesTemporais(tabela) :
          /\ ColunasTemporais[k] # PrimeiraFonte(tabela)
          /\ ~DerivadasVemDe(tabela, ColunasTemporais[k])

\* What each stage establishes on the table it returns.
PosPadronizar(t) ==
    \A j \in 1..Len(t.cols) : NormalizarNome(t.cols[j].nome) = t.cols[j].nome

PosDatas(self, t) ==
    \A k \in 1..Len(self.colunas_data) :
        HasCol(t, self.colunas_data[k])
            => GetCol(t, self.colunas_data[k]).dtype = "datetime"

PosAusentes(t) ==
    \A j \in 1..Len(t.cols) : IsNumberDtype(t.cols[j].dtype) => SemNA(t.cols[j])

PosDuplicatas(t) ==
    \A i, j \in 1..t.n : i # j => ~LinhasIguais(t, i, j)

PosCoordenadas(self, t) ==
    /\ HasCol(t, self.coluna_latitude) =>
         \A i \in 1..t.n :
             LET c == GetCol(t, self.coluna_latitude).vals[i]
             IN  c = CoordenadaEsperada(c, LatMin, LatMax)
    /\ HasCol(t, self.coluna_longitude) =>
         \A i \in 1..t.n :
             LET c == GetCol(t, self.coluna_longitude).vals[i]
             IN  c = CoordenadaEsperada(c, LonMin, LonMax)

\* The table executar returns is the five stages applied once each, in the
\* order of the code, each to what the stage before it returned.
EstagiosEmOrdem ==
    tabela =
        corrigir_coordenadas_geograficas(limpador,
            remover_duplicatas(limpador,
                tratar_valores_ausentes(limpador,
                    processar_datas(limpador,
                        padronizar_colunas(limpador, anterior)))))

\* C25: executar applies padronizar_colunas, processar_datas,
\* tratar_valores_ausentes, remover_duplicatas and
\* corrigir_coordenadas_geograficas once each in that order, each to the
\* output of the one before, and what each stage establishes still holds on
\* the table executar returns.
C25_EstagiosEPosCondicoes ==
    op = "executar" =>
        /\ EstagiosEmOrdem
        /\ PosPadronizar(tabela)
        /\ PosDatas(limpador, tabela)
        /\ PosAusentes(tabela)
        /\ PosDuplicatas(tabela)
        /\ PosCoordenadas(limpador, tabela)

\* The part of C25 the code keeps: the order and composition of the stages
\* and what the first, second and last stage establish.
C25_OrdemEPosCondicoesMantidas ==
    op = "executar" =>
        /\ EstagiosEmOrdem
        /\ PosPadronizar(tabela)
        /\ PosDatas(limpador, tabela)
        /\ PosCoordenadas(limpador, tabela)

\* A column of a table is among a list of names.
NomeEm(nome, nomes) == \E k \in 1..Len(nomes) : nomes[k] = nome

\* The columns of the input, other than the ones named, are in the output
\* with the values they had.
MantemForaDe(antes, depois, nomes) ==
    \A j \in 1..Len(antes.cols) :
        ~NomeEm(antes.cols[j].nome, nomes) =>
            /\ HasCol(depois, antes.cols[j].nome)
            /\ GetCol(depois, antes.cols[j].nome).vals = antes.cols[j].vals

\* C28: processar_datas keeps the row count and changes no column already
\* present in its input other than the candidate date columns it parses
\* (an existing hora or ano column keeps its values).
C28_SoDatasMudam ==
    op = "processar_datas" =>
        /\ tabela.n = anterior.n
        /\ MantemForaDe(anterior, tabela, limpador.colunas_data)

\* The part of C28 the code keeps: the row count, and every column other
\* than the candidate date columns and the six columns the stage writes.
C28_SoDatasEDerivadasMudam ==
    op = "processar_datas" =>
        /\ tabela.n = anterior.n
        /\ MantemForaDe(anterior, tabela,
                        limpador.colunas_data \o <<S_data_hora_completa>> \o ColunasDerivadas)

\* C30: a table executar returns, when it has a temporal source column,
\* has the columns create_features reads, dia_semana_num and hora, under
\* those names.
C30_ColunasDoClassificador ==
    (op = "executar" /\ FontesTemporais(tabela) # {})
        => \A k \in 1..Len(ColunasLidas) : HasCol(tabela, ColunasLidas[k])

====
